---- MODULE Spec2Model ----
(***************************************************************************)
(* The in-memory entity store of the on-call application (MemStorage) and  *)
(* the request status-history protocol it implements.                      *)
(*                                                                         *)
(* A JavaScript Map is a sequence of records in insertion order (set on a  *)
(* present key replaces in place, set on a new key appends, delete         *)
(* removes).  A JavaScript object is a function from field names to        *)
(* values, so that an absent key is a name outside its DOMAIN.  A value    *)
(* that may be undefined or null is a sequence: of length 0 (undefined),   *)
(* 1 (the value) or 2 (null).                                              *)
(* Date values are integers (minutes since the epoch, UTC); an ISO string  *)
(* is a tagged pair built by toISOString.  statusHistory arrays live in a  *)
(* heap (arrays) and records hold references to them, because updateRequest *)
(* pushes onto the stored array in place.                                  *)
(***************************************************************************)
EXTENDS Integers, Sequences, FiniteSets, TLC

VARIABLES
    organizations,          \* Map<number, Organization>
    physicians,             \* Map<number, Physician>
    organizationPhysicians, \* Map<number, OrganizationPhysician>
    schedules,              \* Map<number, Schedule>
    requests,               \* Map<number, Request>
    users,                  \* Map<number, User>
    orgCurrentId,
    physicianCurrentId,
    orgPhysicianCurrentId,
    scheduleCurrentId,
    requestCurrentId,
    userCurrentId,
    arrays,                 \* heap of statusHistory arrays: reference -> sequence of entries
    clock,                  \* the last value the system clock was read at
    call,                   \* the caller's last operation: its name, arguments and result
    created,                \* per kind, the number of create calls the caller has made
    assigned,               \* per kind, every id handed out so far
    statusCalls,            \* per request, the updateRequestStatus calls made on it
    steps                   \* the number of operations the caller has made

maps == <<organizations, physicians, organizationPhysicians, schedules, requests, users>>
counters == <<orgCurrentId, physicianCurrentId, orgPhysicianCurrentId,
              scheduleCurrentId, requestCurrentId, userCurrentId>>
vars == <<steps, maps, counters, arrays, clock, call, created, assigned, statusCalls>>

----------------------------------------------------------------------------
(* Bounds of the model *)

\* operations the caller makes on one store
MaxCalls == 2
\* days of history the demo data covers (the code loops over 90)
HistoryDays == 1
\* days of future rotation the demo data covers (the code loops over 14)
FutureDays == 1
\* how far the clock may advance after construction, in ticks
MaxTicks == 1

----------------------------------------------------------------------------
(* JavaScript values *)

undefined == <<>>
null == <<"null", "null">>
Some(v) == <<v>>

\* {...a, ...b}
Spread(a, b) ==
    [k \in (DOMAIN a) \cup (DOMAIN b) |-> IF k \in DOMAIN b THEN b[k] ELSE a[k]]

\* obj.k, undefined when the key is absent
Field(obj, k) == IF k \in DOMAIN obj THEN Some(obj[k]) ELSE undefined

\* Date.prototype.toISOString: injective, a string and not a Date
toISOString(d) == <<"iso", d>>
\* new Date(isoString)
parseISO(s) == s[2]

\* minutes in a day
DayMinutes == 24 * 60
\* the instant the store is constructed at: 2025-01-15T00:10Z, in minutes
ConstructedAt == 20103 * DayMinutes + 10

\* new Date(): the clock never runs backwards and may advance between two reads
Now(from) == {t \in {from, from + 1} : t <= ConstructedAt + MaxTicks}

\* Date arithmetic (UTC)
EpochDay(d) == d \div DayMinutes
\* d.setHours(h, m, 0, 0)
setHours(d, h, m) == EpochDay(d) * DayMinutes + h * 60 + m
\* d.setDate(d.getDate() + n)
addDays(d, n) == d + n * DayMinutes
\* d.setMinutes(d.getMinutes() + n)
addMinutes(d, n) == d + n
\* d.getDay(): 0 = Sunday; 1970-01-01 was a Thursday
getDay(d) == (EpochDay(d) + 4) % 7
\* the civil date of an epoch day: <<year, month, day>>
Civil(z0) ==
    LET z == z0 + 719468
        era == z \div 146097
        doe == z - era * 146097
        yoe == (doe - (doe \div 1460) + (doe \div 36524) - (doe \div 146096)) \div 365
        doy == doe - (365 * yoe + (yoe \div 4) - (yoe \div 100))
        mp == (5 * doy + 2) \div 153
        day == doy - ((153 * mp + 2) \div 5) + 1
        month == IF mp < 10 THEN mp + 3 ELSE mp - 9
        year == yoe + era * 400 + (IF month <= 2 THEN 1 ELSE 0)
    IN  <<year, month, day>>
\* d.getDate(): the day of the month
getDate(d) == Civil(EpochDay(d))[3]
\* d.toLocaleDateString()
toLocaleDateString(d) ==
    LET c == Civil(EpochDay(d))
    IN  ToString(c[2]) \o "/" \o ToString(c[3]) \o "/" \o ToString(c[1])

----------------------------------------------------------------------------
(* Map<number, T> *)

MapIds(m) == {m[i].id : i \in DOMAIN m}
MapHas(m, id) == id \in MapIds(m)
MapIndex(m, id) == CHOOSE i \in DOMAIN m : m[i].id = id
\* Map.get
MapGet(m, id) == IF MapHas(m, id) THEN Some(m[MapIndex(m, id)]) ELSE undefined
\* Map.set adding an entry even when the key is present
MapAppend(m, id, v) == Append(m, v)
\* Map.set moving the entry of a key that is present to the end
MapSetLast(m, id, v) == Append(SelectSeq(m, LAMBDA e : e.id # id), v)
\* Map.set
MapSet(m, id, v) ==
    IF MapHas(m, id) THEN [m EXCEPT ![MapIndex(m, id)] = v] ELSE Append(m, v)
\* Map.delete (the map afterwards; its result is MapHas before)
MapDelete(m, id) ==
    IF MapHas(m, id)
    THEN LET i == MapIndex(m, id)
         IN  [j \in 1..(Len(m) - 1) |-> IF j < i THEN m[j] ELSE m[j + 1]]
    ELSE m

----------------------------------------------------------------------------
(* The demo data the constructor seeds (initializeDemoData) *)

org1 ==
    [id |-> 1, name |-> "Memorial Healthcare", address |-> "123 Main St",
     city |-> "Springfield", state |-> "IL", zip |-> "62701", phone |-> "555-123-4567",
     email |-> "admin@memorialhealthcare.com",
     billingCodes |-> <<"MH-001", "MH-002", "MH-003">>, createdAt |-> ConstructedAt]
org2 ==
    [id |-> 2, name |-> "City General Hospital", address |-> "456 Oak Ave",
     city |-> "Riverside", state |-> "CA", zip |-> "92501", phone |-> "555-987-6543",
     email |-> "admin@citygeneralhospital.com",
     billingCodes |-> <<"CGH-001", "CGH-002">>, createdAt |-> ConstructedAt]
\* DemoOrganizations seeding the first organization only
DemoOrganizationsWithoutSecond == <<org1>>
DemoOrganizations == <<org1, org2>>

physician1 ==
    [id |-> 1, firstName |-> "Robert", lastName |-> "Chen", specialty |-> "Cardiology",
     phone |-> "555-111-2222", email |-> "robert.chen@example.com",
     credentials |-> <<"MD", "FACC">>, createdAt |-> ConstructedAt]
physician2 ==
    [id |-> 2, firstName |-> "Lisa", lastName |-> "Wong", specialty |-> "Neurology",
     phone |-> "555-222-3333", email |-> "lisa.wong@example.com",
     credentials |-> <<"MD", "PhD">>, createdAt |-> ConstructedAt]
physician3 ==
    [id |-> 3, firstName |-> "Sarah", lastName |-> "Miller",
     specialty |-> "Internal Medicine", phone |-> "555-333-4444",
     email |-> "sarah.miller@example.com", credentials |-> <<"MD">>,
     createdAt |-> ConstructedAt]
physician4 ==
    [id |-> 4, firstName |-> "Michael", lastName |-> "Brown", specialty |-> "Oncology",
     phone |-> "555-444-5555", email |-> "michael.brown@example.com",
     credentials |-> <<"MD", "PhD">>, createdAt |-> ConstructedAt]
DemoPhysicians == <<physician1, physician2, physician3, physician4>>

\* the six assignPhysicianToOrganization calls of the constructor
\* DemoAssignments without the rows of the first organization
DemoAssignmentsOfSecond ==
    <<[id |-> 1, organizationId |-> 2, physicianId |-> 1],
      [id |-> 2, organizationId |-> 2, physicianId |-> 3]>>

DemoAssignments ==
    <<[id |-> 1, organizationId |-> 1, physicianId |-> 1],
      [id |-> 2, organizationId |-> 1, physicianId |-> 2],
      [id |-> 3, organizationId |-> 1, physicianId |-> 3],
      [id |-> 4, organizationId |-> 1, physicianId |-> 4],
      [id |-> 5, organizationId |-> 2, physicianId |-> 1],
      [id |-> 6, organizationId |-> 2, physicianId |-> 3]>>

adminUser ==
    [id |-> 1, username |-> "admin", password |-> "password", firstName |-> "Admin",
     lastName |-> "User", email |-> "admin@example.com", role |-> "admin",
     organizationId |-> Some(1), physicianId |-> null, createdAt |-> ConstructedAt]
physicianUser ==
    [id |-> 2, username |-> "sarah.miller", password |-> "password",
     firstName |-> "Sarah", lastName |-> "Miller", email |-> "sarah.miller@example.com",
     role |-> "physician", organizationId |-> Some(1), physicianId |-> Some(3),
     createdAt |-> ConstructedAt]
DemoUsers == <<adminUser, physicianUser>>

\* one InsertSchedule
Shift(physicianId, startTime, endTime, title, description, isActive) ==
    [organizationId |-> 1, physicianId |-> physicianId, startTime |-> startTime,
     endTime |-> endTime, title |-> title, description |-> Some(description),
     isActive |-> isActive]

weekdays ==
    <<"Sunday", "Monday", "Tuesday", "Wednesday", "Thursday", "Friday", "Saturday">>
\* who is on call each week of the month, by day of the week modulo 4
weeklyRotation == <<<<1, 2, 3, 4>>, <<4, 1, 2, 3>>, <<3, 4, 1, 2>>, <<2, 3, 4, 1>>>>
primaryPhysicianId(d) == weeklyRotation[(((getDate(d) - 1) \div 7) % 4) + 1][(getDay(d) % 4) + 1]
secondaryPhysicianId(d) ==
    weeklyRotation[(((getDate(d) - 1) \div 7) % 4) + 1][(((getDay(d) % 4) + 1) % 4) + 1]

\* today's and tomorrow's shifts
NearShifts(today) ==
    LET tomorrow == addDays(today, 1)
        dayAfterTomorrow == addDays(today, 2)
        morningStart == setHours(today, 8, 0)
        eveningEnd == setHours(today, 20, 0)
        eveningStart == setHours(today, 18, 0)
        morningEnd == setHours(tomorrow, 8, 0)
        tomorrowMorningStart == setHours(tomorrow, 8, 0)
        tomorrowEveningEnd == setHours(tomorrow, 20, 0)
        tomorrowEveningStart == setHours(tomorrow, 18, 0)
        dayAfterTomorrowMorningEnd == setHours(dayAfterTomorrow, 8, 0)
    IN  <<Shift(1, morningStart, eveningEnd, "Day Shift - Cardiology",
                "Primary on-call for cardiology department", TRUE),
          Shift(2, morningStart, eveningEnd, "Day Shift - Neurology",
                "Primary on-call for neurology department", TRUE),
          Shift(3, morningStart, eveningEnd, "Day Shift - Internal Medicine",
                "Primary on-call for internal medicine department", TRUE),
          Shift(4, eveningStart, morningEnd, "Night Shift - Oncology",
                "Primary on-call for oncology department", TRUE),
          Shift(2, tomorrowMorningStart, tomorrowEveningEnd, "Day Shift - Neurology",
                "Primary on-call for neurology department", TRUE),
          Shift(4, tomorrowMorningStart, tomorrowEveningEnd, "Day Shift - Oncology",
                "Primary on-call for oncology department", TRUE),
          Shift(3, tomorrowEveningStart, dayAfterTomorrowMorningEnd,
                "Night Shift - Internal Medicine",
                "Primary on-call for internal medicine department", TRUE)>>

\* the schedules of the day i days before today
HistoricalDay(today, i) ==
    LET historicalDate == addDays(today, 0 - i)
        dayOfWeek == getDay(historicalDate)
        dayName == weekdays[dayOfWeek + 1]
        on == toLocaleDateString(historicalDate)
        rotation ==
            <<Shift(primaryPhysicianId(historicalDate), setHours(historicalDate, 8, 0),
                    setHours(historicalDate, 20, 0), "Day Rotation - " \o dayName,
                    "Regular day rotation schedule for " \o on, i < 30),
              Shift(secondaryPhysicianId(historicalDate), setHours(historicalDate, 20, 0),
                    setHours(addDays(historicalDate, 1), 8, 0),
                    "Night Rotation - " \o dayName,
                    "Regular night rotation schedule for " \o on, i < 30)>>
        cardiology ==
            IF dayOfWeek = 1 \/ dayOfWeek = 4
            THEN <<Shift(1, setHours(historicalDate, 9, 0), setHours(historicalDate, 17, 0),
                         "Cardiology Coverage",
                         "Dedicated cardiology on-call coverage for " \o on, i < 30)>>
            ELSE <<>>
        neurology ==
            IF dayOfWeek = 2 \/ dayOfWeek = 5
            THEN <<Shift(2, setHours(historicalDate, 9, 0), setHours(historicalDate, 17, 0),
                         "Neurology Coverage",
                         "Dedicated neurology on-call coverage for " \o on, i < 30)>>
            ELSE <<>>
    IN  rotation \o cardiology \o neurology

\* for (let i = from; i >= 1; i--)
RECURSIVE HistoricalShifts(_, _)
HistoricalShifts(today, i) ==
    IF i < 1 THEN <<>> ELSE HistoricalDay(today, i) \o HistoricalShifts(today, i - 1)

\* the rotation of the day i + 1 days after today
FutureDay(today, i) ==
    LET rotationDay == addDays(today, i + 1)
        dayName == weekdays[getDay(rotationDay) + 1]
        on == toLocaleDateString(rotationDay)
    IN  <<Shift(primaryPhysicianId(rotationDay), setHours(rotationDay, 8, 0),
                setHours(rotationDay, 20, 0), "Day Rotation - " \o dayName,
                "Regular day rotation schedule for " \o on, TRUE),
          Shift(secondaryPhysicianId(rotationDay), setHours(rotationDay, 20, 0),
                setHours(addDays(rotationDay, 1), 8, 0), "Night Rotation - " \o dayName,
                "Regular night rotation schedule for " \o on, TRUE)>>

\* for (let i = from; i < days; i++)
RECURSIVE FutureShifts(_, _, _)
FutureShifts(today, i, days) ==
    IF i >= days THEN <<>> ELSE FutureDay(today, i) \o FutureShifts(today, i + 1, days)

\* for (let i = from; i < days; i += 7): the weekly backup
RECURSIVE BackupShifts(_, _, _)
BackupShifts(today, i, days) ==
    IF i >= days
    THEN <<>>
    ELSE LET backupDay == addDays(today, i + 2)
             weekStart == setHours(backupDay, 0, 0)
             weekEnd == setHours(addDays(backupDay, 6), 23, 59)
         IN  <<Shift(IF i = 0 THEN 1 ELSE 3, weekStart, weekEnd, "Weekly Backup On-Call",
                     "Backup physician for emergency coverage from "
                         \o toLocaleDateString(weekStart) \o " to "
                         \o toLocaleDateString(weekEnd), TRUE)>>
             \o BackupShifts(today, i + 7, days)

\* every schedule of the demo data, as createSchedule stores them
DemoSchedules ==
    LET shifts == NearShifts(ConstructedAt)
                  \o HistoricalShifts(ConstructedAt, HistoryDays)
                  \o FutureShifts(ConstructedAt, 0, FutureDays)
                  \o BackupShifts(ConstructedAt, 0, FutureDays)
    IN  [k \in 1..Len(shifts) |->
            Spread(shifts[k], [id |-> k, createdAt |-> ConstructedAt])]

----------------------------------------------------------------------------
(* Requests *)

\* request.status || "pending": an absent or empty status is falsy
StatusOrPending(request) ==
    IF "status" \in DOMAIN request /\ request.status # "" THEN request.status ELSE "pending"

\* the statusHistory createRequest seeds
SeedHistory(request, now) ==
    <<[status |-> StatusOrPending(request), timestamp |-> toISOString(now)]>>

\* the record createRequest stores: {...request, id, createdAt, updatedAt, statusHistory}
NewRequest(request, id, now, ref) ==
    Spread(request, [id |-> id, createdAt |-> now, updatedAt |-> now, statusHistory |-> ref])

request1 ==
    [organizationId |-> 1, physicianId |-> 1, patientName |-> "Brian Taylor",
     patientMRN |-> "MT-4829", diagnosis |-> "Chest pain, suspected angina",
     location |-> "Emergency Department, Room 3",
     notes |-> Some("Patient has history of heart disease"),
     status |-> "accepted", priority |-> "urgent"]
request2 ==
    [organizationId |-> 1, physicianId |-> 2, patientName |-> "Maria Garcia",
     patientMRN |-> "MT-7621", diagnosis |-> "Severe headache, suspected migraine",
     location |-> "Emergency Department, Room 5",
     notes |-> Some("Patient reports visual aura"),
     status |-> "pending", priority |-> "normal"]
request3 ==
    [organizationId |-> 1, physicianId |-> 3, patientName |-> "James Wilson",
     patientMRN |-> "MT-2134", diagnosis |-> "Shortness of breath, suspected pneumonia",
     location |-> "Inpatient Ward, Room 210",
     status |-> "completed", priority |-> "normal"]
request4 ==
    [organizationId |-> 1, physicianId |-> 4, patientName |-> "Emma Johnson",
     patientMRN |-> "MT-5912", diagnosis |-> "Follow-up on chemotherapy side effects",
     location |-> "Oncology Clinic, Room 8",
     notes |-> Some("Patient experiencing severe nausea"),
     status |-> "declined", priority |-> "urgent"]
\* the requests the constructor passes to createRequest
ManualRequests == <<request1, request2, request3, request4>>

statuses == {"pending", "accepted", "in_progress", "completed", "declined", "cancelled"}

\* What Math.random() decides for one historical request, from small sets:
\* any status, and one value (the least) for each other draw.
RandomDraws ==
    [status : statuses,
     first : {15},           \* Math.floor(Math.random() * 15) + 15
     response : {15},        \* Math.floor(Math.random() * 30) + 15
     second : {30},          \* Math.floor(Math.random() * 60) + 30
     third : {45},           \* Math.floor(Math.random() * 135) + 45
     hour : {23}, minute : {30}, physicianIndex : {0}, priority : {"normal"},
     diagnosis : {"Chest pain"}, ward : {3}, room : {12}]

\* the status changes a historical request is given after its creation
Transitions(draw, dayDate) ==
    LET acceptedDate == addMinutes(dayDate, draw.first)
        progressDate == addMinutes(acceptedDate, draw.second)
        completedDate == addMinutes(progressDate, draw.third)
        responseDate == addMinutes(dayDate, draw.response)
        step(s, d) == [status |-> s, timestamp |-> toISOString(d), userId |-> Some(1)]
    IN  CASE draw.status = "completed" ->
                <<step("accepted", acceptedDate), step("in_progress", progressDate),
                  step("completed", completedDate)>>
          [] draw.status = "in_progress" ->
                <<step("accepted", acceptedDate), step("in_progress", progressDate)>>
          [] draw.status = "accepted" -> <<step("accepted", acceptedDate)>>
          [] draw.status \in {"declined", "cancelled"} ->
                <<step(draw.status, responseDate)>>
          [] OTHER -> <<>>

\* the statusHistory of the historical request of day i (j = 0)
HistoricalHistory(draw, i) ==
    LET dayDate == setHours(addDays(ConstructedAt, 0 - i), draw.hour, draw.minute)
    IN  <<[status |-> draw.status, timestamp |-> toISOString(dayDate)]>>
        \o Transitions(draw, dayDate)

\* the historical request of day i (j = 0), stored without createRequest
HistoricalRequest(draw, i, id, ref) ==
    LET dayDate == setHours(addDays(ConstructedAt, 0 - i), draw.hour, draw.minute)
        transitions == Transitions(draw, dayDate)
    IN  [id |-> id, organizationId |-> 1, physicianId |-> draw.physicianIndex + 1,
         patientName |-> "Patient " \o ToString(i) \o "-0",
         patientMRN |-> "MT-" \o ToString(1000 + i * 10),
         diagnosis |-> draw.diagnosis,
         location |-> "Ward " \o ToString(draw.ward) \o ", Room " \o ToString(draw.room),
         notes |-> Some("Historical request from " \o ToString(i) \o " days ago"),
         status |-> draw.status, priority |-> draw.priority,
         createdAt |-> dayDate,
         updatedAt |-> IF Len(transitions) > 0
                       THEN parseISO(transitions[Len(transitions)].timestamp)
                       ELSE dayDate,
         statusHistory |-> ref]

\* the requests map after construction, given the draws of each day (the
\* k-th draw is the one of day HistoryDays + 1 - k)
DemoRequests(draws) ==
    [k \in 1..(Len(ManualRequests) + Len(draws)) |->
        IF k <= Len(ManualRequests)
        THEN NewRequest(ManualRequests[k], k, ConstructedAt, k)
        ELSE HistoricalRequest(draws[k - Len(ManualRequests)],
                               HistoryDays + 1 - (k - Len(ManualRequests)), k, k)]
\* and the statusHistory arrays they refer to
DemoArrays(draws) ==
    [k \in 1..(Len(ManualRequests) + Len(draws)) |->
        IF k <= Len(ManualRequests)
        THEN SeedHistory(ManualRequests[k], ConstructedAt)
        ELSE HistoricalHistory(draws[k - Len(ManualRequests)],
                               HistoryDays + 1 - (k - Len(ManualRequests)))]

\* the array a request's statusHistory refers to
History(r) == arrays[r.statusHistory]

\* the references a set of requests and a returned value hold
Referenced(reqs, result) ==
    {reqs[i].statusHistory : i \in DOMAIN reqs}
        \cup {result[i].statusHistory :
                 i \in {j \in DOMAIN result : "statusHistory" \in DOMAIN result[j]}}
\* a reference no live array has
FreshRef == CHOOSE r \in 1..(Cardinality(DOMAIN arrays) + 1) : r \notin DOMAIN arrays
\* the heap once the arrays nothing refers to are collected
Collect(heap, reqs, result) ==
    [r \in (DOMAIN heap) \cap Referenced(reqs, result) |-> heap[r]]

----------------------------------------------------------------------------
(* The caller's record of what it has done *)

kinds ==
    {"organization", "physician", "organizationPhysician", "schedule", "request", "user"}
\* the create operation of each kind
CreateOp ==
    [organization |-> "createOrganization", physician |-> "createPhysician",
     organizationPhysician |-> "assignPhysicianToOrganization",
     schedule |-> "createSchedule", request |-> "createRequest", user |-> "createUser"]

\* The updateRequestStatus calls made on each request that createRequest
\* made and on which no other call has changed the status since.
StatusCallsAfter(op, args, result) ==
    LET id == args.id
        tracked == id \in DOMAIN statusCalls
        drop == [i \in (DOMAIN statusCalls) \ {id} |-> statusCalls[i]]
    IN  CASE op = "createRequest" -> (result[1].id :> <<>>) @@ statusCalls
          [] op = "deleteRequest" -> drop
          [] op = "updateRequestStatus" /\ result # undefined /\ tracked ->
                [statusCalls EXCEPT
                    ![id] = Append(@, <<args.status, args.note, args.userId>>)]
          [] op = "updateRequest" /\ result # undefined /\ tracked
                /\ Field(MapGet(requests, id)[1], "status") # Field(result[1], "status") ->
                drop
          [] OTHER -> statusCalls

\* the caller has made one more operation, op, with these arguments and this result
Called(op, args, result) ==
    /\ steps < MaxCalls
    /\ steps' = steps + 1
    /\ call' = [op |-> op, args |-> args, result |-> result]
    /\ created' = [k \in kinds |-> IF op = CreateOp[k] THEN created[k] + 1 ELSE created[k]]
    /\ assigned' = [k \in kinds |->
                      IF op = CreateOp[k] THEN assigned[k] \cup {result[1].id}
                      ELSE assigned[k]]
    /\ statusCalls' = StatusCallsAfter(op, args, result)

----------------------------------------------------------------------------
(* Construction *)

Init ==
    /\ organizations = DemoOrganizations
    /\ physicians = DemoPhysicians
    /\ organizationPhysicians = DemoAssignments
    /\ schedules = DemoSchedules
    /\ \E draws \in [1..HistoryDays -> RandomDraws] :
          /\ requests = DemoRequests(draws)
          /\ arrays = DemoArrays(draws)
    /\ users = DemoUsers
    /\ orgCurrentId = Len(DemoOrganizations) + 1
    /\ physicianCurrentId = Len(DemoPhysicians) + 1
    /\ orgPhysicianCurrentId = Len(DemoAssignments) + 1
    /\ scheduleCurrentId = Len(DemoSchedules) + 1
    /\ requestCurrentId = Len(ManualRequests) + HistoryDays + 1
    /\ userCurrentId = Len(DemoUsers) + 1
    /\ clock = ConstructedAt
    /\ call = [op |-> "constructor", args |-> <<>>, result |-> undefined]
    /\ created = [k \in kinds |-> 0]
    /\ assigned = [organization |-> MapIds(organizations), physician |-> MapIds(physicians),
                   organizationPhysician |-> MapIds(organizationPhysicians),
                   schedule |-> MapIds(schedules), request |-> MapIds(requests),
                   user |-> MapIds(users)]
    /\ statusCalls = [id \in 1..Len(ManualRequests) |-> <<>>]
    /\ steps = 0

----------------------------------------------------------------------------
(* Request operations *)

\* a read changes nothing: its result in the current state
getRequest(id) == MapGet(requests, id)

createRequest(request, now) ==
    LET id == requestCurrentId
        newRequest == NewRequest(request, id, now, FreshRef)
    IN  /\ Called("createRequest", [request |-> request], Some(newRequest))
        /\ requestCurrentId' = requestCurrentId + 1
        /\ requests' = MapSet(requests, id, newRequest)
        /\ arrays' = Collect((FreshRef :> SeedHistory(request, now)) @@ arrays,
                             requests', Some(newRequest))
        /\ clock' = now
        /\ UNCHANGED <<organizations, physicians, organizationPhysicians, schedules, users,
                       orgCurrentId, physicianCurrentId, orgPhysicianCurrentId,
                       scheduleCurrentId, userCurrentId>>

\* request.status && request.status !== existingRequest.status
StatusChanging(existingRequest, request) ==
    /\ "status" \in DOMAIN request
    /\ request.status # ""
    /\ Field(existingRequest, "status") # Some(request.status)

\* the entry updateRequest pushes
PatchEntry(request, entryAt) ==
    [status |-> request.status, timestamp |-> toISOString(entryAt)]

\* MergedRequest spreading in the other order: {...request, ...existingRequest}
MergedRequestKeepingStored(existingRequest, request, updatedAt) ==
    Spread(Spread(request, existingRequest), [updatedAt |-> updatedAt])

\* {...existingRequest, ...request, updatedAt: new Date()}
MergedRequest(existingRequest, request, updatedAt) ==
    Spread(Spread(existingRequest, request), [updatedAt |-> updatedAt])

\* entryAt is read for the history entry, and only when the status is changing
updateRequest(id, request, entryAt, updatedAt) ==
    LET found == MapHas(requests, id)
        existingRequest == MapGet(requests, id)[1]
        changing == StatusChanging(existingRequest, request)
        pushed == IF changing
                  THEN [arrays EXCEPT ![existingRequest.statusHistory] =
                                          Append(@, PatchEntry(request, entryAt))]
                  ELSE arrays
        updatedRequest == MergedRequest(existingRequest, request, updatedAt)
    IN  /\ found /\ ~changing => entryAt = updatedAt
        /\ ~found => entryAt = clock /\ updatedAt = clock
        /\ Called("updateRequest", [id |-> id, request |-> request],
                  IF found THEN Some(updatedRequest) ELSE undefined)
        /\ requests' = IF found THEN MapSet(requests, id, updatedRequest) ELSE requests
        /\ arrays' = IF found
                     THEN Collect(pushed, requests', Some(updatedRequest))
                     ELSE arrays
        /\ clock' = updatedAt
        /\ UNCHANGED <<organizations, physicians, organizationPhysicians, schedules, users,
                       counters>>

\* StatusEntry without the note and the user of the call
StatusEntryWithoutAuthor(status, note, userId, entryAt) ==
    [status |-> status, timestamp |-> toISOString(entryAt),
     note |-> undefined, userId |-> undefined]

\* the entry updateRequestStatus appends
StatusEntry(status, note, userId, entryAt) ==
    [status |-> status, timestamp |-> toISOString(entryAt), note |-> note, userId |-> userId]

\* AppendedHistory dropping the earlier entries: [statusEntry]
ReplacedHistory(existingRequest, statusEntry) == <<statusEntry>>

\* [...existingRequest.statusHistory, statusEntry]
AppendedHistory(existingRequest, statusEntry) ==
    Append(History(existingRequest), statusEntry)

\* UpdatedRequest keeping the status of a request that is completed,
\* declined or cancelled
UpdatedRequestUnlessTerminal(existingRequest, status, updatedAt, ref) ==
    Spread(existingRequest,
           [status |-> IF Field(existingRequest, "status")
                            \in {Some("completed"), Some("declined"), Some("cancelled")}
                       THEN existingRequest.status
                       ELSE status,
            updatedAt |-> updatedAt, statusHistory |-> ref])

\* {...existingRequest, status, updatedAt: new Date(), statusHistory}
UpdatedRequest(existingRequest, status, updatedAt, ref) ==
    Spread(existingRequest,
           [status |-> status, updatedAt |-> updatedAt, statusHistory |-> ref])

updateRequestStatus(id, status, note, userId, entryAt, updatedAt) ==
    LET found == MapHas(requests, id)
        existingRequest == MapGet(requests, id)[1]
        statusEntry == StatusEntry(status, note, userId, entryAt)
        ref == FreshRef
        updatedRequest == UpdatedRequest(existingRequest, status, updatedAt, ref)
    IN  /\ ~found => entryAt = clock /\ updatedAt = clock
        /\ Called("updateRequestStatus",
                  [id |-> id, status |-> status, note |-> note, userId |-> userId],
                  IF found THEN Some(updatedRequest) ELSE undefined)
        /\ requests' = IF found THEN MapSet(requests, id, updatedRequest) ELSE requests
        /\ arrays' = IF found
                     THEN Collect((ref :> AppendedHistory(existingRequest, statusEntry))
                                      @@ arrays,
                                  requests', Some(updatedRequest))
                     ELSE arrays
        /\ clock' = updatedAt
        /\ UNCHANGED <<organizations, physicians, organizationPhysicians, schedules, users,
                       counters>>

\* deleteRequest answering true whether or not the id was stored
deleteRequestAlwaysTrue(id) ==
    /\ Called("deleteRequest", [id |-> id], TRUE)
    /\ requests' = MapDelete(requests, id)
    /\ arrays' = Collect(arrays, requests', undefined)
    /\ UNCHANGED <<organizations, physicians, organizationPhysicians, schedules, users,
                   counters, clock>>

deleteRequest(id) ==
    /\ Called("deleteRequest", [id |-> id], MapHas(requests, id))
    /\ requests' = MapDelete(requests, id)
    /\ arrays' = Collect(arrays, requests', undefined)
    /\ UNCHANGED <<organizations, physicians, organizationPhysicians, schedules, users,
                   counters, clock>>

----------------------------------------------------------------------------
(* Organization, physician, assignment, schedule and user operations *)

\* a read changes nothing: its result in the current state
getOrganization(id) == MapGet(organizations, id)
getPhysician(id) == MapGet(physicians, id)
getUser(id) == MapGet(users, id)

\* createOrganization taking the size of the collection plus one as the id
createOrganizationBySize(organization, now) ==
    LET id == Len(organizations) + 1
        newOrg == Spread(organization, [id |-> id, createdAt |-> now])
    IN  /\ Called("createOrganization", [organization |-> organization], Some(newOrg))
        /\ orgCurrentId' = id + 1
        /\ organizations' = MapSet(organizations, id, newOrg)
        /\ clock' = now
        /\ UNCHANGED <<physicians, organizationPhysicians, schedules, requests, users,
                       physicianCurrentId, orgPhysicianCurrentId, scheduleCurrentId,
                       requestCurrentId, userCurrentId, arrays>>

createOrganization(organization, now) ==
    LET id == orgCurrentId
        newOrg == Spread(organization, [id |-> id, createdAt |-> now])
    IN  /\ Called("createOrganization", [organization |-> organization], Some(newOrg))
        /\ orgCurrentId' = orgCurrentId + 1
        /\ organizations' = MapSet(organizations, id, newOrg)
        /\ clock' = now
        /\ UNCHANGED <<physicians, organizationPhysicians, schedules, requests, users,
                       physicianCurrentId, orgPhysicianCurrentId, scheduleCurrentId,
                       requestCurrentId, userCurrentId, arrays>>

\* deleteOrganization removing the assignment rows of the organization too
deleteOrganizationAndRows(id) ==
    /\ Called("deleteOrganization", [id |-> id], MapHas(organizations, id))
    /\ organizations' = MapDelete(organizations, id)
    /\ organizationPhysicians' =
          SelectSeq(organizationPhysicians, LAMBDA op : op.organizationId # id)
    /\ UNCHANGED <<physicians, schedules, requests, users, counters, arrays, clock>>

deleteOrganization(id) ==
    /\ Called("deleteOrganization", [id |-> id], MapHas(organizations, id))
    /\ organizations' = MapDelete(organizations, id)
    /\ UNCHANGED <<physicians, organizationPhysicians, schedules, requests, users,
                   counters, arrays, clock>>

createPhysician(physician, now) ==
    LET id == physicianCurrentId
        newPhysician == Spread(physician, [id |-> id, createdAt |-> now])
    IN  /\ Called("createPhysician", [physician |-> physician], Some(newPhysician))
        /\ physicianCurrentId' = physicianCurrentId + 1
        /\ physicians' = MapSet(physicians, id, newPhysician)
        /\ clock' = now
        /\ UNCHANGED <<organizations, organizationPhysicians, schedules, requests, users,
                       orgCurrentId, orgPhysicianCurrentId, scheduleCurrentId,
                       requestCurrentId, userCurrentId, arrays>>

deletePhysician(id) ==
    /\ Called("deletePhysician", [id |-> id], MapHas(physicians, id))
    /\ physicians' = MapDelete(physicians, id)
    /\ UNCHANGED <<organizations, organizationPhysicians, schedules, requests, users,
                   counters, arrays, clock>>

\* assignPhysicianToOrganization returning the stored row of the pair, if
\* there is one, instead of adding a row
assignUnlessAssigned(data) ==
    LET found == SelectSeq(organizationPhysicians,
                           LAMBDA op : /\ op.organizationId = data.organizationId
                                       /\ op.physicianId = data.physicianId)
        id == orgPhysicianCurrentId
        newOrgPhysician == Spread(data, [id |-> id])
    IN  IF Len(found) > 0
        THEN /\ Called("assignPhysicianToOrganization", [data |-> data], Some(found[1]))
             /\ UNCHANGED <<maps, counters, arrays, clock>>
        ELSE /\ Called("assignPhysicianToOrganization", [data |-> data],
                       Some(newOrgPhysician))
             /\ orgPhysicianCurrentId' = orgPhysicianCurrentId + 1
             /\ organizationPhysicians' = MapSet(organizationPhysicians, id, newOrgPhysician)
             /\ UNCHANGED <<organizations, physicians, schedules, requests, users,
                            orgCurrentId, physicianCurrentId, scheduleCurrentId,
                            requestCurrentId, userCurrentId, arrays, clock>>

assignPhysicianToOrganization(data) ==
    LET id == orgPhysicianCurrentId
        newOrgPhysician == Spread(data, [id |-> id])
    IN  /\ Called("assignPhysicianToOrganization", [data |-> data], Some(newOrgPhysician))
        /\ orgPhysicianCurrentId' = orgPhysicianCurrentId + 1
        /\ organizationPhysicians' = MapSet(organizationPhysicians, id, newOrgPhysician)
        /\ UNCHANGED <<organizations, physicians, schedules, requests, users,
                       orgCurrentId, physicianCurrentId, scheduleCurrentId,
                       requestCurrentId, userCurrentId, arrays, clock>>

createSchedule(schedule, now) ==
    LET id == scheduleCurrentId
        newSchedule == Spread(schedule, [id |-> id, createdAt |-> now])
    IN  /\ Called("createSchedule", [schedule |-> schedule], Some(newSchedule))
        /\ scheduleCurrentId' = scheduleCurrentId + 1
        /\ schedules' = MapSet(schedules, id, newSchedule)
        /\ clock' = now
        /\ UNCHANGED <<organizations, physicians, organizationPhysicians, requests, users,
                       orgCurrentId, physicianCurrentId, orgPhysicianCurrentId,
                       requestCurrentId, userCurrentId, arrays>>

deleteSchedule(id) ==
    /\ Called("deleteSchedule", [id |-> id], MapHas(schedules, id))
    /\ schedules' = MapDelete(schedules, id)
    /\ UNCHANGED <<organizations, physicians, organizationPhysicians, requests, users,
                   counters, arrays, clock>>

\* createUser returning the new user without putting it in the map
createUserUnstored(user, now) ==
    LET id == userCurrentId
        newUser == Spread(user, [id |-> id, createdAt |-> now])
    IN  /\ Called("createUser", [user |-> user], Some(newUser))
        /\ userCurrentId' = userCurrentId + 1
        /\ clock' = now
        /\ UNCHANGED <<organizations, physicians, organizationPhysicians, schedules,
                       requests, users, orgCurrentId, physicianCurrentId,
                       orgPhysicianCurrentId, scheduleCurrentId, requestCurrentId, arrays>>

createUser(user, now) ==
    LET id == userCurrentId
        newUser == Spread(user, [id |-> id, createdAt |-> now])
    IN  /\ Called("createUser", [user |-> user], Some(newUser))
        /\ userCurrentId' = userCurrentId + 1
        /\ users' = MapSet(users, id, newUser)
        /\ clock' = now
        /\ UNCHANGED <<organizations, physicians, organizationPhysicians, schedules,
                       requests, orgCurrentId, physicianCurrentId, orgPhysicianCurrentId,
                       scheduleCurrentId, requestCurrentId, arrays>>

deleteUser(id) ==
    /\ Called("deleteUser", [id |-> id], MapHas(users, id))
    /\ users' = MapDelete(users, id)
    /\ UNCHANGED <<organizations, physicians, organizationPhysicians, schedules, requests,
                   counters, arrays, clock>>

----------------------------------------------------------------------------
(* What the caller passes *)

TestRequest ==
    [organizationId |-> 1, physicianId |-> 1, patientName |-> "Pat",
     patientMRN |-> "MRN", diagnosis |-> "diag", location |-> "loc",
     notes |-> Some("n"), priority |-> "normal"]
\* InsertRequest values: the status omitted, empty, or given
InsertRequests ==
    {TestRequest} \cup {Spread(TestRequest, [status |-> s]) : s \in {"", "completed"}}
\* Partial<InsertRequest> values: nothing, an empty status, the status the
\* third demo request has, another status
RequestPatches ==
    {<<>>, [status |-> ""], [status |-> "completed"],
     [status |-> "accepted", notes |-> Some("x")]}
\* (status, note, userId) of an updateRequestStatus call
StatusCalls == {<<"completed", undefined, undefined>>, <<"accepted", Some("ok"), Some(7)>>}
\* the ids tried: the third demo request (completed) and the first id the
\* constructor left unused
RequestIds == {3, Len(ManualRequests) + HistoryDays + 1}

RequestNext ==
    \/ \E request \in InsertRequests, now \in Now(clock) : createRequest(request, now)
    \/ \E id \in RequestIds, request \in RequestPatches :
          \E entryAt \in Now(clock) : \E updatedAt \in Now(entryAt) :
             updateRequest(id, request, entryAt, updatedAt)
    \/ \E id \in RequestIds, c \in StatusCalls :
          \E entryAt \in Now(clock) : \E updatedAt \in Now(entryAt) :
             updateRequestStatus(id, c[1], c[2], c[3], entryAt, updatedAt)
    \/ \E id \in RequestIds : deleteRequest(id)

TestOrganization ==
    [name |-> "Test Org", address |-> "123 St", city |-> "City", state |-> "ST",
     zip |-> "00000", phone |-> "123", email |-> "a@example.com", billingCodes |-> <<>>]
TestPhysician ==
    [firstName |-> "John", lastName |-> "Doe", specialty |-> "Spec", phone |-> "1",
     email |-> "p@example.com", credentials |-> <<>>]
\* the shift of 2000-01-01
TestSchedule ==
    [organizationId |-> 1, physicianId |-> 1, startTime |-> 10957 * DayMinutes,
     endTime |-> 10958 * DayMinutes, title |-> "Shift", description |-> Some("desc"),
     isActive |-> TRUE]
TestUser ==
    [username |-> "user1", password |-> "pass", firstName |-> "f", lastName |-> "l",
     email |-> "u@example.com", role |-> "admin", organizationId |-> Some(1),
     physicianId |-> undefined]
\* an assignment the demo data already holds, and one of an organization
\* and a physician that do not exist
Assignments ==
    {[organizationId |-> 1, physicianId |-> 1], [organizationId |-> 99, physicianId |-> 99]}
\* the ids tried, per kind: the first demo entity and the first id the
\* constructor left unused
OrganizationIds == {1, Len(DemoOrganizations) + 1}
PhysicianIds == {1, Len(DemoPhysicians) + 1}
ScheduleIds == {1, Len(DemoSchedules) + 1}
UserIds == {1, Len(DemoUsers) + 1}

\* creating and deleting entities of every kind
StoreNext ==
    \/ \E now \in Now(clock) : createOrganization(TestOrganization, now)
    \/ \E id \in OrganizationIds : deleteOrganization(id)
    \/ \E now \in Now(clock) : createPhysician(TestPhysician, now)
    \/ \E id \in PhysicianIds : deletePhysician(id)
    \/ \E data \in Assignments : assignPhysicianToOrganization(data)
    \/ \E now \in Now(clock) : createSchedule(TestSchedule, now)
    \/ \E id \in ScheduleIds : deleteSchedule(id)
    \/ \E request \in InsertRequests, now \in Now(clock) : createRequest(request, now)
    \/ \E id \in RequestIds : deleteRequest(id)
    \/ \E now \in Now(clock) : createUser(TestUser, now)
    \/ \E id \in UserIds : deleteUser(id)

\* the store under request operations
Next == RequestNext

Spec == Init /\ [][Next]_vars

\* the store under creations and deletions of every kind
SpecStore == Init /\ [][StoreNext]_vars

----------------------------------------------------------------------------
(* Properties of the request status history *)

\* the statusHistory of the stored request id
HistoryOf(id) == History(MapGet(requests, id)[1])
\* the statusHistory of the stored request id after the step
HistoryAfter(id) == arrays'[MapGet(requests', id)[1].statusHistory]
IsPrefix(s, t) == Len(s) <= Len(t) /\ SubSeq(t, 1, Len(s)) = s
Last(s) == s[Len(s)]
\* an entry carries neither a note nor a user
Anonymous(e) ==
    /\ Field(e, "note") \in {undefined, Some(undefined)}
    /\ Field(e, "userId") \in {undefined, Some(undefined)}

\* C1: the status history is append-only and never empty.  In every step,
\* every stored request has a history of at least one entry; a request
\* that stays in the store has its earlier history as a prefix of its later
\* one; and only deleteRequest takes a request out of the store.
HistoryAppendOnly ==
    [][/\ \A id \in MapIds(requests) :
             /\ Len(HistoryOf(id)) >= 1
             /\ id \in MapIds(requests') => IsPrefix(HistoryOf(id), HistoryOf(id)')
             /\ call'.op # "deleteRequest" => id \in MapIds(requests')
       /\ \A id \in MapIds(requests') : Len(HistoryOf(id)') >= 1]_vars

\* C1 happens: updateRequest has pushed a third entry onto a stored history
HistoryGrewTwice ==
    /\ call.op = "updateRequest"
    /\ call.result # undefined
    /\ Len(History(call.result[1])) >= 3

\* C2: N updateRequestStatus calls on a request made by createRequest, with
\* no other call changing its status, give a history of 1 + N entries; the
\* i-th appended entry carries the status, note and userId of the i-th
\* call, whether or not that status was already the current one; and the
\* status of the request is the status of the last call.
StatusCallsAppendInOrder ==
    \A id \in DOMAIN statusCalls :
        LET h == HistoryOf(id)
            calls == statusCalls[id]
        IN  /\ MapHas(requests, id)
            /\ Len(h) = 1 + Len(calls)
            /\ \A i \in 1..Len(calls) :
                  /\ h[1 + i].status = calls[i][1]
                  /\ h[1 + i].note = calls[i][2]
                  /\ h[1 + i].userId = calls[i][3]
            /\ Len(calls) > 0 => MapGet(requests, id)[1].status = calls[Len(calls)][1]

\* C2 happens: two calls on demo request 3 (completed), the first with the
\* status it already had, the second with another status, a note and a user
TwoStatusCalls ==
    /\ 3 \in DOMAIN statusCalls
    /\ statusCalls[3] = <<<<"completed", undefined, undefined>>,
                          <<"accepted", Some("ok"), Some(7)>>>>

\* C3: after a successful updateRequestStatus, updatedAt is the timestamp
\* of the entry the call appended.
UpdatedAtIsEntryTimestamp ==
    call.op = "updateRequestStatus" /\ call.result # undefined =>
        toISOString(call.result[1].updatedAt) = Last(History(call.result[1])).timestamp

\* C4: createRequest stores a history of exactly one entry, without note
\* or userId, whose status is the provided status ("pending" if omitted)
\* and whose timestamp is createdAt, and createdAt is updatedAt.
SeedEntryHasProvidedStatus ==
    call.op = "createRequest" =>
        LET r == call.result[1]
            h == HistoryOf(r.id)
            provided == call.args.request
        IN  /\ Len(h) = 1
            /\ Anonymous(h[1])
            /\ h[1].status = IF "status" \in DOMAIN provided THEN provided.status
                             ELSE "pending"
            /\ h[1].timestamp = toISOString(r.createdAt)
            /\ r.createdAt = r.updatedAt

\* C5: updateRequest on a stored request appends exactly one entry
\* {status, timestamp} if and only if the patch has a status that differs
\* from the stored one, and leaves the history alone otherwise; in every
\* case the fields of the patch are merged onto the record and updatedAt
\* is the time of the call.
PatchAppendsIffStatusDiffers ==
    [][call'.op = "updateRequest" /\ call'.result # undefined =>
          LET id == call'.args.id
              patch == call'.args.request
              differs == /\ "status" \in DOMAIN patch
                         /\ Field(MapGet(requests, id)[1], "status") # Some(patch.status)
          IN  /\ differs =>
                    /\ Len(HistoryAfter(id)) = Len(HistoryOf(id)) + 1
                    /\ IsPrefix(HistoryOf(id), HistoryAfter(id))
                    /\ Last(HistoryAfter(id)).status = patch.status
                    /\ DOMAIN Last(HistoryAfter(id)) = {"status", "timestamp"}
              /\ ~differs => HistoryAfter(id) = HistoryOf(id)
              /\ \A k \in DOMAIN patch : MapGet(requests', id)[1][k] = patch[k]
              /\ MapGet(requests', id)[1].updatedAt = clock'
              /\ clock' >= clock]_vars

\* C6: updateRequestStatus answers "not found" exactly for an id that is
\* not stored; on a stored request, whatever its status and whatever the
\* new one, it sets the status and appends one entry with that status.
NoTransitionRejected ==
    [][call'.op = "updateRequestStatus" =>
          LET id == call'.args.id
          IN  /\ call'.result = undefined <=> ~MapHas(requests, id)
              /\ MapHas(requests, id) =>
                    /\ MapGet(requests', id)[1].status = call'.args.status
                    /\ call'.result = MapGet(requests', id)
                    /\ Len(HistoryAfter(id)) = Len(HistoryOf(id)) + 1
                    /\ Last(HistoryAfter(id)).status = call'.args.status]_vars

\* C6 happens: a completed request has been moved back to accepted
TerminalLeft ==
    /\ call.op = "updateRequestStatus"
    /\ call.result # undefined
    /\ call.args.status = "accepted"
    /\ LET h == History(call.result[1])
       IN  Len(h) >= 2 /\ h[Len(h) - 1].status = "completed"

----------------------------------------------------------------------------
(* Properties of identifiers, creation and deletion *)

\* the map and the id counter of each kind
Collection ==
    [organization |-> organizations, physician |-> physicians,
     organizationPhysician |-> organizationPhysicians, schedule |-> schedules,
     request |-> requests, user |-> users]
CurrentId ==
    [organization |-> orgCurrentId, physician |-> physicianCurrentId,
     organizationPhysician |-> orgPhysicianCurrentId, schedule |-> scheduleCurrentId,
     request |-> requestCurrentId, user |-> userCurrentId]
\* the delete operation of each kind that has one by id
DeleteOp ==
    [organization |-> "deleteOrganization", physician |-> "deletePhysician",
     schedule |-> "deleteSchedule", request |-> "deleteRequest", user |-> "deleteUser"]
\* the kinds that have a lookup by id
LookupKinds == {"organization", "physician", "request", "user"}

\* C7: identifiers are unique, increasing and never reused per kind.  The
\* id a create operation returns is greater than every id assigned before
\* in its kind (by the constructor's demo data or by a call, deleted since
\* or not); no two stored entities of a kind share an id; and an operation
\* advances the counter of its own kind only.
IdsNeverReused ==
    [][\A k \in kinds :
          /\ call'.op = CreateOp[k] =>
                /\ \A i \in assigned[k] : call'.result[1].id > i
                /\ call'.result[1].id \in MapIds(Collection'[k])
          /\ call'.op # CreateOp[k] => CurrentId'[k] = CurrentId[k]
          /\ MapIds(Collection'[k]) \subseteq assigned'[k]
          /\ Cardinality(MapIds(Collection'[k])) = Len(Collection'[k])]_vars

\* C7 happens: an organization is created after the first one was deleted
CreatedAfterDelete ==
    /\ call.op = "createOrganization"
    /\ ~MapHas(organizations, 1)
    /\ 1 \in assigned.organization

\* C8 as stated: the first organization and the first physician created on
\* a newly constructed store each receive id 1.
FirstCreatedGetOne ==
    /\ call.op = "createOrganization" /\ created.organization = 1 =>
          call.result[1].id = 1
    /\ call.op = "createPhysician" /\ created.physician = 1 =>
          call.result[1].id = 1

\* C8, amended: the constructor has seeded 2 organizations and 4
\* physicians, so the first organization created on a newly constructed
\* store receives id 3 and the first physician id 5.
FirstCreatedFollowDemoData ==
    /\ call.op = "createOrganization" /\ created.organization = 1 =>
          call.result[1].id = 3
    /\ call.op = "createPhysician" /\ created.physician = 1 =>
          call.result[1].id = 5

\* C8 happens: the first physician is created after the first organization
FirstOfBothCreated ==
    /\ call.op = "createPhysician"
    /\ created.physician = 1
    /\ created.organization = 1

\* C9: right after a create of a kind with a lookup by id (organization,
\* physician, request, user) returns e, the lookup of e.id returns e, and
\* every field supplied to the create has in e the value supplied.
CreateThenGetRoundTrip ==
    \A k \in LookupKinds :
        call.op = CreateOp[k] =>
            LET e == call.result[1]
                fields == call.args[k]
            IN  /\ MapGet(Collection[k], e.id) = Some(e)
                /\ \A f \in DOMAIN fields : f \in DOMAIN e /\ e[f] = fields[f]

\* C9 happens: a user and a request with a status were created and are stored
UserAndRequestCreated ==
    /\ call.op = "createUser"
    /\ getUser(call.result[1].id) # undefined
    /\ \E i \in 1..Len(requests) :
          /\ requests[i].id > Len(ManualRequests) + HistoryDays
          /\ Field(requests[i], "status") = Some("completed")

\* C10: delete(id) of a stored entity answers true and the id is absent
\* afterwards, the other entities of the kind staying; delete of an absent
\* id answers false and changes no map and no counter.
DeleteAnswersPresence ==
    [][\A k \in DOMAIN DeleteOp :
          call'.op = DeleteOp[k] =>
              LET id == call'.args.id
                  present == MapHas(Collection[k], id)
              IN  /\ call'.result = present
                  /\ MapGet(Collection'[k], id) = undefined
                  /\ MapIds(Collection'[k]) = MapIds(Collection[k]) \ {id}
                  /\ ~present => UNCHANGED <<maps, counters, arrays>>]_vars

\* C10 happens: the first demo organization is deleted a second time
DeletedTwice ==
    /\ call.op = "deleteOrganization"
    /\ call.args.id = 1
    /\ call.result = FALSE

----------------------------------------------------------------------------
(* Update operations of the other kinds *)

\* updatedOrg forgetting the fields the patch does not name:
\* {id: existingOrg.id, ...organization}
replacedOrg(existingOrg, organization) ==
    Spread([id |-> existingOrg.id], organization)

\* {...existingOrg, ...organization}
updatedOrg(existingOrg, organization) == Spread(existingOrg, organization)

updateOrganization(id, organization) ==
    LET existingOrg == MapGet(organizations, id)
    IN  IF existingOrg = undefined
        THEN /\ Called("updateOrganization", [id |-> id, organization |-> organization],
                       undefined)
             /\ UNCHANGED <<maps, counters, arrays, clock>>
        ELSE /\ Called("updateOrganization", [id |-> id, organization |-> organization],
                       Some(updatedOrg(existingOrg[1], organization)))
             /\ organizations' = MapSet(organizations, id,
                                        updatedOrg(existingOrg[1], organization))
             /\ UNCHANGED <<physicians, organizationPhysicians, schedules, requests, users,
                            counters, arrays, clock>>

\* {...existingPhysician, ...physician}
updatedPhysician(existingPhysician, physician) == Spread(existingPhysician, physician)

updatePhysician(id, physician) ==
    LET existingPhysician == MapGet(physicians, id)
    IN  IF existingPhysician = undefined
        THEN /\ Called("updatePhysician", [id |-> id, physician |-> physician], undefined)
             /\ UNCHANGED <<maps, counters, arrays, clock>>
        ELSE /\ Called("updatePhysician", [id |-> id, physician |-> physician],
                       Some(updatedPhysician(existingPhysician[1], physician)))
             /\ physicians' = MapSet(physicians, id,
                                     updatedPhysician(existingPhysician[1], physician))
             /\ UNCHANGED <<organizations, organizationPhysicians, schedules, requests,
                            users, counters, arrays, clock>>

\* {...existingSchedule, ...schedule}
updatedSchedule(existingSchedule, schedule) == Spread(existingSchedule, schedule)

updateSchedule(id, schedule) ==
    LET existingSchedule == MapGet(schedules, id)
    IN  IF existingSchedule = undefined
        THEN /\ Called("updateSchedule", [id |-> id, schedule |-> schedule], undefined)
             /\ UNCHANGED <<maps, counters, arrays, clock>>
        ELSE /\ Called("updateSchedule", [id |-> id, schedule |-> schedule],
                       Some(updatedSchedule(existingSchedule[1], schedule)))
             /\ schedules' = MapSet(schedules, id,
                                    updatedSchedule(existingSchedule[1], schedule))
             /\ UNCHANGED <<organizations, physicians, organizationPhysicians, requests,
                            users, counters, arrays, clock>>

\* {...existingUser, ...user}
updatedUser(existingUser, user) == Spread(existingUser, user)

\* updateUser storing the patch under the id when the id is not stored
updateUserOrInsert(id, user) ==
    LET existingUser == MapGet(users, id)
        base == IF existingUser = undefined THEN [id |-> id] ELSE existingUser[1]
    IN  /\ Called("updateUser", [id |-> id, user |-> user],
                  Some(updatedUser(base, user)))
        /\ users' = MapSet(users, id, updatedUser(base, user))
        /\ UNCHANGED <<organizations, physicians, organizationPhysicians, schedules,
                       requests, counters, arrays, clock>>

updateUser(id, user) ==
    LET existingUser == MapGet(users, id)
    IN  IF existingUser = undefined
        THEN /\ Called("updateUser", [id |-> id, user |-> user], undefined)
             /\ UNCHANGED <<maps, counters, arrays, clock>>
        ELSE /\ Called("updateUser", [id |-> id, user |-> user],
                       Some(updatedUser(existingUser[1], user)))
             /\ users' = MapSet(users, id, updatedUser(existingUser[1], user))
             /\ UNCHANGED <<organizations, physicians, organizationPhysicians, schedules,
                            requests, counters, arrays, clock>>

\* Partial<Insert...> values: one field, several fields, none
OrganizationPatches == {[name |-> "Updated Hospital"], <<>>}
PhysicianPatches == {[specialty |-> "Updated", phone |-> "2"]}
SchedulePatches == {[title |-> "Updated"], [isActive |-> FALSE, description |-> undefined]}
UserPatches == {[lastName |-> "new"]}

\* the update operation of each kind, and the kind of each update operation
UpdateOp ==
    [organization |-> "updateOrganization", physician |-> "updatePhysician",
     schedule |-> "updateSchedule", user |-> "updateUser"]
UpdatedKind ==
    [updateOrganization |-> "organization", updatePhysician |-> "physician",
     updateSchedule |-> "schedule", updateUser |-> "user",
     updateRequest |-> "request", updateRequestStatus |-> "request"]

\* updating entities of every kind
UpdateNext ==
    \/ \E id \in OrganizationIds, organization \in OrganizationPatches :
          updateOrganization(id, organization)
    \/ \E id \in PhysicianIds, physician \in PhysicianPatches : updatePhysician(id, physician)
    \/ \E id \in ScheduleIds, schedule \in SchedulePatches : updateSchedule(id, schedule)
    \/ \E id \in UserIds, user \in UserPatches : updateUser(id, user)
    \/ \E id \in RequestIds, request \in RequestPatches :
          \E entryAt \in Now(clock) : \E updatedAt \in Now(entryAt) :
             updateRequest(id, request, entryAt, updatedAt)
    \/ \E id \in RequestIds, c \in StatusCalls :
          \E entryAt \in Now(clock) : \E updatedAt \in Now(entryAt) :
             updateRequestStatus(id, c[1], c[2], c[3], entryAt, updatedAt)

\* the store under updates of every kind
SpecUpdate == Init /\ [][UpdateNext]_vars

\* C11: updateOrganization, updatePhysician, updateSchedule and updateUser
\* on a stored id change exactly the fields of the patch.  The returned
\* record is the stored one; it has the patch's value in every field of
\* the patch and the earlier value in every other field, id and createdAt
\* included; it keeps its place under the same id; and no other record of
\* any kind, no counter and no history changes.
UpdateChangesPatchedFieldsOnly ==
    [][\A k \in DOMAIN UpdateOp :
          call'.op = UpdateOp[k] /\ MapHas(Collection[k], call'.args.id) =>
              LET id == call'.args.id
                  patch == call'.args[k]
                  old == MapGet(Collection[k], id)[1]
                  new == MapGet(Collection'[k], id)[1]
              IN  /\ MapHas(Collection'[k], id)
                  /\ call'.result = Some(new)
                  /\ DOMAIN new = (DOMAIN old) \cup (DOMAIN patch)
                  /\ \A f \in DOMAIN patch : new[f] = patch[f]
                  /\ \A f \in (DOMAIN old) \ (DOMAIN patch) : new[f] = old[f]
                  /\ new.id = id /\ new.createdAt = old.createdAt
                  /\ Len(Collection'[k]) = Len(Collection[k])
                  /\ \A i \in DOMAIN Collection[k] :
                        Collection[k][i].id # id => Collection'[k][i] = Collection[k][i]
                  /\ \A j \in kinds \ {k} : Collection'[j] = Collection[j]
                  /\ UNCHANGED <<counters, arrays>>]_vars

\* C11 happens: the name of the first organization was replaced, its
\* address kept, after a schedule was updated
OrganizationRenamed ==
    /\ call.op = "updateOrganization"
    /\ call.result # undefined
    /\ call.result[1].name = "Updated Hospital"
    /\ call.result[1].address = org1.address
    /\ \E i \in DOMAIN schedules : schedules[i].title = "Updated"

\* C12: an update operation of any kind (updateOrganization,
\* updatePhysician, updateSchedule, updateRequest, updateRequestStatus,
\* updateUser) called with an id that is not stored returns undefined and
\* leaves every map, every counter and every history as it was.
UpdateOfAbsentIdChangesNothing ==
    [][call'.op \in DOMAIN UpdatedKind
         /\ ~MapHas(Collection[UpdatedKind[call'.op]], call'.args.id) =>
              /\ call'.result = undefined
              /\ UNCHANGED <<maps, counters, arrays>>]_vars

\* C12 happens: the second call is an updateRequestStatus of an id that is
\* not stored, and the users are as constructed
AbsentIdsUpdated ==
    /\ call.op = "updateRequestStatus"
    /\ call.result = undefined
    /\ steps = 2
    /\ users = DemoUsers
    /\ ~MapHas(requests, call.args.id)

----------------------------------------------------------------------------
(* Assignments of physicians to organizations *)

\* rows.map(row => m.get(row[key])).filter(x => x !== undefined)
Resolve(rows, m, key) ==
    LET got == [i \in DOMAIN rows |-> MapGet(m, rows[i][key])]
        kept == SelectSeq(got, LAMBDA g : g # undefined)
    IN  [i \in DOMAIN kept |-> kept[i][1]]

\* orgPhysicians keeping one row per physician only
orgPhysiciansOnce(organizationId) ==
    LET rows == organizationPhysicians
        firsts == {i \in DOMAIN rows :
                      /\ rows[i].organizationId = organizationId
                      /\ \A j \in 1..(i - 1) :
                            ~(/\ rows[j].organizationId = organizationId
                              /\ rows[j].physicianId = rows[i].physicianId)}
        n == Cardinality(firsts)
        nth[k \in 1..n] ==
            CHOOSE i \in firsts : Cardinality({j \in firsts : j < i}) = k - 1
    IN  [k \in 1..n |-> rows[nth[k]]]

\* the assignment rows of an organization, in insertion order
orgPhysicians(organizationId) ==
    SelectSeq(organizationPhysicians, LAMBDA op : op.organizationId = organizationId)

\* the result of getPhysiciansByOrganization
physiciansByOrganization(organizationId) ==
    Resolve(orgPhysicians(organizationId), physicians, "physicianId")

getPhysiciansByOrganization(organizationId) ==
    /\ Called("getPhysiciansByOrganization", [organizationId |-> organizationId],
              physiciansByOrganization(organizationId))
    /\ UNCHANGED <<maps, counters, arrays, clock>>

\* the result of getOrganizationsByPhysician
organizationsByPhysician(physicianId) ==
    Resolve(SelectSeq(organizationPhysicians, LAMBDA op : op.physicianId = physicianId),
            organizations, "organizationId")

getOrganizationsByPhysician(physicianId) ==
    /\ Called("getOrganizationsByPhysician", [physicianId |-> physicianId],
              organizationsByPhysician(physicianId))
    /\ UNCHANGED <<maps, counters, arrays, clock>>

\* the rows find() looks through for both ids
Matching(organizationId, physicianId) ==
    SelectSeq(organizationPhysicians,
              LAMBDA op : op.organizationId = organizationId /\ op.physicianId = physicianId)

\* removePhysicianFromOrganization deleting every matching row
removeEveryAssignment(organizationId, physicianId) ==
    LET found == Matching(organizationId, physicianId)
    IN  /\ Called("removePhysicianFromOrganization",
                  [organizationId |-> organizationId, physicianId |-> physicianId],
                  Len(found) > 0)
        /\ organizationPhysicians' =
              SelectSeq(organizationPhysicians,
                        LAMBDA op : ~(/\ op.organizationId = organizationId
                                      /\ op.physicianId = physicianId))
        /\ UNCHANGED <<organizations, physicians, schedules, requests, users,
                       counters, arrays, clock>>

removePhysicianFromOrganization(organizationId, physicianId) ==
    LET found == Matching(organizationId, physicianId)
    IN  IF Len(found) = 0
        THEN /\ Called("removePhysicianFromOrganization",
                       [organizationId |-> organizationId, physicianId |-> physicianId],
                       FALSE)
             /\ UNCHANGED <<maps, counters, arrays, clock>>
        ELSE /\ Called("removePhysicianFromOrganization",
                       [organizationId |-> organizationId, physicianId |-> physicianId],
                       MapHas(organizationPhysicians, found[1].id))
             /\ organizationPhysicians' = MapDelete(organizationPhysicians, found[1].id)
             /\ UNCHANGED <<organizations, physicians, schedules, requests, users,
                            counters, arrays, clock>>

\* the pairs tried: one the demo data assigns, and one of an organization
\* and a physician that do not exist
AssignedPairs == {<<1, 1>>, <<99, 99>>}

\* assigning, removing and listing, while physicians and organizations are deleted
AssignNext ==
    \/ \E data \in Assignments : assignPhysicianToOrganization(data)
    \/ \E pair \in AssignedPairs : removePhysicianFromOrganization(pair[1], pair[2])
    \/ \E id \in PhysicianIds : deletePhysician(id)
    \/ \E id \in OrganizationIds : deleteOrganization(id)
    \/ \E pair \in AssignedPairs : getPhysiciansByOrganization(pair[1])
    \/ \E pair \in AssignedPairs : getOrganizationsByPhysician(pair[2])

\* the store under assignment operations
SpecAssign == Init /\ [][AssignNext]_vars

\* the number of positions of a sequence that hold x
Count(s, x) == Cardinality({i \in DOMAIN s : s[i] = x})
\* the assignment rows of a pair
RowsOf(organizationId, physicianId) ==
    {i \in DOMAIN organizationPhysicians :
        /\ organizationPhysicians[i].organizationId = organizationId
        /\ organizationPhysicians[i].physicianId = physicianId}

\* C13: getPhysiciansByOrganization(orgId) returns one physician per
\* assignment row of orgId whose physician is stored: every element is a
\* stored physician, each stored physician appears as many times as orgId
\* has rows for it, and rows of physicians no longer stored add nothing.
\* getOrganizationsByPhysician is the same with the roles exchanged.
OnePhysicianPerResolvingRow ==
    /\ call.op = "getPhysiciansByOrganization" =>
          /\ \A i \in DOMAIN call.result : MapGet(physicians, call.result[i].id)
                                             = Some(call.result[i])
          /\ \A i \in DOMAIN physicians :
                Count(call.result, physicians[i])
                   = Cardinality(RowsOf(call.args.organizationId, physicians[i].id))
    /\ call.op = "getOrganizationsByPhysician" =>
          /\ \A i \in DOMAIN call.result : MapGet(organizations, call.result[i].id)
                                             = Some(call.result[i])
          /\ \A i \in DOMAIN organizations :
                Count(call.result, organizations[i])
                   = Cardinality(RowsOf(organizations[i].id, call.args.physicianId))

\* C13 happens: the first physician, assigned to the first organization by
\* two rows, is listed twice
PhysicianListedTwice ==
    /\ call.op = "getPhysiciansByOrganization"
    /\ Cardinality(RowsOf(1, 1)) = 2
    /\ Count(call.result, physician1) = 2

\* C14: removePhysicianFromOrganization answers false and changes nothing
\* when no row has both ids; otherwise it answers true and removes the
\* first such row and nothing else, so that of k rows of the pair k - 1
\* remain, and a stored physician with a remaining row is still listed for
\* the organization.
RemoveTakesFirstRowOnly ==
    [][\A pair \in AssignedPairs :
          /\ call'.op = "removePhysicianFromOrganization"
          /\ call'.args = [organizationId |-> pair[1], physicianId |-> pair[2]]
          => LET rows == RowsOf(pair[1], pair[2])
                 first == CHOOSE i \in rows : \A j \in rows : i <= j
             IN  /\ rows = {} => /\ call'.result = FALSE
                                 /\ UNCHANGED <<maps, counters, arrays>>
                 /\ rows # {} =>
                       /\ call'.result = TRUE
                       /\ organizationPhysicians' =
                             SubSeq(organizationPhysicians, 1, first - 1)
                                \o SubSeq(organizationPhysicians, first + 1,
                                          Len(organizationPhysicians))
                       /\ Cardinality(RowsOf(pair[1], pair[2])') = Cardinality(rows) - 1
                       /\ Cardinality(rows) > 1 /\ MapHas(physicians, pair[2]) =>
                             \E i \in DOMAIN physiciansByOrganization(pair[1])' :
                                physiciansByOrganization(pair[1])'[i].id = pair[2]
                       /\ UNCHANGED <<organizations, physicians, schedules, requests,
                                      users, counters, arrays>>]_vars

\* C14 happens: one of two rows of a pair was removed and the other remains
OneOfTwoRowsRemoved ==
    /\ call.op = "removePhysicianFromOrganization"
    /\ call.result = TRUE
    /\ Cardinality(RowsOf(call.args.organizationId, call.args.physicianId)) = 1
    /\ steps = 2

\* C15: assignPhysicianToOrganization always appends one row, with the
\* pair given and an id never assigned before, whether or not the pair
\* already has a row and whether or not its organization and physician
\* are stored.
AssignAlwaysAddsRow ==
    [][call'.op = "assignPhysicianToOrganization" =>
          /\ Len(organizationPhysicians') = Len(organizationPhysicians) + 1
          /\ organizationPhysicians' = Append(organizationPhysicians, call'.result[1])
          /\ call'.result[1].id \notin assigned.organizationPhysician
          /\ call'.result[1].organizationId = call'.args.data.organizationId
          /\ call'.result[1].physicianId = call'.args.data.physicianId]_vars

\* C15 happens: a pair whose organization and physician do not exist was
\* assigned twice
UnknownPairAssignedTwice ==
    /\ call.op = "assignPhysicianToOrganization"
    /\ ~MapHas(organizations, 99) /\ ~MapHas(physicians, 99)
    /\ Cardinality(RowsOf(99, 99)) = 2

----------------------------------------------------------------------------
(* Active schedules *)

\* the interval test with the bounds themselves left out
overlapsStrictly(s, from, to) == s.startTime < to /\ s.endTime > from

\* new Date(s.startTime) <= to && new Date(s.endTime) >= from
overlaps(s, from, to) == s.startTime <= to /\ s.endTime >= from

\* the filter of getActiveSchedules; from and to are undefined or Some(date)
activeFilter(s, organizationId, from, to) ==
    IF s.organizationId # organizationId \/ Field(s, "isActive") # Some(TRUE)
    THEN FALSE
    ELSE IF from # undefined /\ to # undefined
         THEN overlaps(s, from[1], to[1])
         ELSE TRUE

getActiveSchedules(organizationId, from, to) ==
    /\ Called("getActiveSchedules",
              [organizationId |-> organizationId, from |-> from, to |-> to],
              SelectSeq(schedules, LAMBDA s : activeFilter(s, organizationId, from, to)))
    /\ UNCHANGED <<maps, counters, arrays, clock>>

\* schedules to create: the test's shift of 2000-01-01, the same shift
\* inactive, and the same shift of the second organization without isActive
InsertSchedules ==
    {TestSchedule,
     Spread(TestSchedule, [isActive |-> FALSE]),
     [k \in (DOMAIN TestSchedule) \ {"isActive"} |->
         IF k = "organizationId" THEN 2 ELSE TestSchedule[k]]}

\* (from, to) tried: both omitted, one omitted, the test's range around the
\* shift, a range starting at the shift's end, a range ending at the
\* shift's start, and a range starting one minute after the shift's end
Ranges ==
    {<<undefined, undefined>>,
     <<Some(TestSchedule.startTime + 60), undefined>>,
     <<Some(TestSchedule.startTime - DayMinutes), Some(TestSchedule.endTime + DayMinutes)>>,
     <<Some(TestSchedule.endTime), Some(TestSchedule.endTime + DayMinutes)>>,
     <<Some(TestSchedule.startTime - DayMinutes), Some(TestSchedule.startTime)>>,
     <<Some(TestSchedule.endTime + 1), Some(TestSchedule.endTime + DayMinutes)>>}

\* creating, updating and listing schedules
ScheduleNext ==
    \/ \E schedule \in InsertSchedules, now \in Now(clock) : createSchedule(schedule, now)
    \/ \E id \in ScheduleIds, schedule \in SchedulePatches : updateSchedule(id, schedule)
    \/ \E organizationId \in {1, 2}, range \in Ranges :
          getActiveSchedules(organizationId, range[1], range[2])

\* the store under schedule operations
SpecSchedule == Init /\ [][ScheduleNext]_vars

\* C16: getActiveSchedules(orgId, from, to) with both bounds returns, once
\* each, exactly the stored schedules of orgId with isActive true,
\* startTime <= to and endTime >= from; with a bound omitted, exactly the
\* stored schedules of orgId with isActive true.
ActiveSchedulesInRange ==
    call.op = "getActiveSchedules" =>
        LET from == call.args.from
            to == call.args.to
            wanted == {i \in DOMAIN schedules :
                          /\ schedules[i].organizationId = call.args.organizationId
                          /\ "isActive" \in DOMAIN schedules[i]
                          /\ schedules[i].isActive = TRUE
                          /\ from # undefined /\ to # undefined =>
                                /\ schedules[i].startTime <= to[1]
                                /\ schedules[i].endTime >= from[1]}
        IN  /\ {call.result[i] : i \in DOMAIN call.result} = {schedules[i] : i \in wanted}
            /\ Len(call.result) = Cardinality(wanted)

\* C16 happens: a range that starts exactly where a created shift ends
\* returns that shift and leaves out the other active schedules
ShiftEndingAtFromReturned ==
    /\ call.op = "getActiveSchedules"
    /\ call.args.from = Some(TestSchedule.endTime)
    /\ Len(call.result) = 1
    /\ call.result[1].endTime = TestSchedule.endTime

----------------------------------------------------------------------------
(* Users and credentials *)

\* getUserByUsername finding the last match instead of the first
getLastUserByUsername(username) ==
    LET found == SelectSeq(users, LAMBDA u : u.username = username)
    IN  IF Len(found) = 0 THEN undefined ELSE Some(found[Len(found)])

\* Array.from(this.users.values()).find(u => u.username === username)
getUserByUsername(username) ==
    LET found == SelectSeq(users, LAMBDA u : u.username = username)
    IN  IF Len(found) = 0 THEN undefined ELSE Some(found[1])

\* the rejection test without the password
rejectedUnlessKnown(user, password) == user = undefined

\* !user || user.password !== password
rejected(user, password) == user = undefined \/ user[1].password # password

verifyUserCredentials(username, password) ==
    LET user == getUserByUsername(username)
    IN  /\ Called("verifyUserCredentials", [username |-> username, password |-> password],
                  IF rejected(user, password) THEN undefined ELSE user)
        /\ UNCHANGED <<maps, counters, arrays, clock>>

\* users to create: the test's user, and a second user named admin
InsertUsers == {TestUser, Spread(TestUser, [username |-> "admin", password |-> "pass"])}
\* names and passwords tried: stored ones, one differing in case, unknown ones
Usernames == {"admin", "Admin", "user1", "nobody"}
Passwords == {"password", "pass", "Password"}

\* Partial<InsertUser> values: another username, another password
Renames == {[username |-> "admin"], [password |-> "pass"]}

\* creating, updating, deleting and verifying users
UserNext ==
    \/ \E user \in InsertUsers, now \in Now(clock) : createUser(user, now)
    \/ \E id \in UserIds, user \in Renames : updateUser(id, user)
    \/ \E id \in UserIds : deleteUser(id)
    \/ \E username \in Usernames, password \in Passwords :
          verifyUserCredentials(username, password)

\* the store under user operations
SpecUser == Init /\ [][UserNext]_vars

\* C17: verifyUserCredentials returns a user only if that user is stored
\* with exactly the username and the password given; when no stored user
\* has the username, or none has the username with the password, it
\* returns undefined; and it changes no map, counter or history.
VerifyReturnsMatchingUserOnly ==
    [][call'.op = "verifyUserCredentials" =>
          LET given == call'.args
              named == {i \in DOMAIN users : users[i].username = given.username}
          IN  /\ call'.result # undefined =>
                    \E i \in named : /\ call'.result = Some(users[i])
                                     /\ users[i].password = given.password
              /\ named = {} => call'.result = undefined
              /\ (\A i \in named : users[i].password # given.password) =>
                    call'.result = undefined
              /\ UNCHANGED <<maps, counters, arrays>>]_vars

\* C17 happens: the created user was verified with its own password
CreatedUserVerified ==
    /\ call.op = "verifyUserCredentials"
    /\ call.result # undefined
    /\ call.result[1].username = "user1"
    /\ call.result[1].id = Len(DemoUsers) + 1

----------------------------------------------------------------------------
(* Deletion of referenced entities, and the demo data *)

\* C18: deleteOrganization and deletePhysician do not cascade.  Each takes
\* the one record of that id out of its own map and leaves the other
\* records of that map, every assignment row, schedule, request and user,
\* and the map of the other kind as they were, whether or not they refer
\* to the deleted id.
DeleteDoesNotCascade ==
    [][/\ call'.op = "deleteOrganization" =>
             /\ organizations' =
                   SelectSeq(organizations, LAMBDA o : o.id # call'.args.id)
             /\ UNCHANGED <<physicians, organizationPhysicians, schedules, requests,
                            users, arrays>>
       /\ call'.op = "deletePhysician" =>
             /\ physicians' = SelectSeq(physicians, LAMBDA p : p.id # call'.args.id)
             /\ UNCHANGED <<organizations, organizationPhysicians, schedules, requests,
                            users, arrays>>]_vars

\* C18 happens: the first organization and the first physician are deleted
\* and an assignment row, a schedule, a request and a user still refer to them
ReferencesLeftDangling ==
    /\ call.op \in {"deleteOrganization", "deletePhysician"}
    /\ ~MapHas(organizations, 1) /\ ~MapHas(physicians, 1)
    /\ \E i \in DOMAIN organizationPhysicians :
          /\ organizationPhysicians[i].organizationId = 1
          /\ organizationPhysicians[i].physicianId = 1
    /\ \E i \in DOMAIN schedules :
          schedules[i].organizationId = 1 /\ schedules[i].physicianId = 1
    /\ \E i \in DOMAIN requests :
          requests[i].organizationId = 1 /\ requests[i].physicianId = 1
    /\ \E i \in DOMAIN users : users[i].organizationId = Some(1)

\* C19: right after construction, the requests the constructor authored by
\* hand (the first Len(ManualRequests) ids) include, for each of the
\* statuses completed, declined and cancelled, a request with that status.
ManualRequestsCoverTerminalStatuses ==
    call.op = "constructor" =>
        \A s \in {"completed", "declined", "cancelled"} :
            \E i \in DOMAIN requests :
                /\ requests[i].id <= Len(ManualRequests)
                /\ Field(requests[i], "status") = Some(s)

\* C20: right after construction the store holds at least 2 organizations
\* and 4 physicians, a user with role admin and one with role physician,
\* and the first organization getOrganizations returns has at least one
\* physician listed by getPhysiciansByOrganization, one schedule and one
\* request.
DemoDataPresent ==
    call.op = "constructor" =>
        /\ Len(organizations) >= 2
        /\ Len(physicians) >= 4
        /\ \E i \in DOMAIN users : users[i].role = "admin"
        /\ \E i \in DOMAIN users : users[i].role = "physician"
        /\ Len(physiciansByOrganization(organizations[1].id)) >= 1
        /\ \E i \in DOMAIN schedules : schedules[i].organizationId = organizations[1].id
        /\ \E i \in DOMAIN requests : requests[i].organizationId = organizations[1].id

\* C20 happens: the store as constructed, its first organization being
\* org1 with its four physicians
StoreAsConstructed ==
    /\ call.op = "constructor"
    /\ steps = 0
    /\ organizations[1] = org1
    /\ Len(physiciansByOrganization(1)) = 4

----------------------------------------------------------------------------
(* Listings *)

\* Array.from(map.values()): the entries in insertion order
values(m) == [i \in DOMAIN m |-> m[i]]

\* the kinds that have a list operation (getOrganizations, getPhysicians,
\* getSchedules, getRequests, getUsers)
ListKinds == {"organization", "physician", "schedule", "request", "user"}

\* creating, updating and deleting entities of every kind
CrudNext ==
    \/ \E now \in Now(clock) : createOrganization(TestOrganization, now)
    \/ \E organization \in OrganizationPatches : updateOrganization(1, organization)
    \/ \E id \in OrganizationIds : deleteOrganization(id)
    \/ \E now \in Now(clock) : createPhysician(TestPhysician, now)
    \/ \E physician \in PhysicianPatches : updatePhysician(1, physician)
    \/ \E id \in PhysicianIds : deletePhysician(id)
    \/ \E data \in Assignments : data.organizationId = 1 /\ assignPhysicianToOrganization(data)
    \/ \E now \in Now(clock) : createSchedule(TestSchedule, now)
    \/ \E schedule \in SchedulePatches : updateSchedule(1, schedule)
    \/ \E id \in ScheduleIds : deleteSchedule(id)
    \/ \E now \in Now(clock) : createRequest(TestRequest, now)
    \/ \E c \in StatusCalls, now \in Now(clock) :
          c[1] = "accepted" /\ updateRequestStatus(3, c[1], c[2], c[3], now, now)
    \/ \E id \in RequestIds : deleteRequest(id)
    \/ \E now \in Now(clock) : createUser(TestUser, now)
    \/ \E user \in UserPatches : updateUser(1, user)
    \/ \E id \in UserIds : deleteUser(id)

\* the store under creations, updates and deletions of every kind
SpecCrud == Init /\ [][CrudNext]_vars

\* C21: the list operation of every kind returns exactly the entities
\* seeded or created and not since deleted.  In every step, a create adds
\* the created entity and raises the count of its kind by one; a delete
\* that answers true takes the deleted id away and lowers the count by one;
\* and every other call (updates, deletes that answer false, calls on
\* other kinds) leaves the ids and the count of the kind as they were.
ListHoldsLiveEntities ==
    [][\A k \in ListKinds :
          LET before == values(Collection[k])
              after == values(Collection'[k])
          IN  IF call'.op = CreateOp[k]
              THEN /\ Len(after) = Len(before) + 1
                   /\ MapIds(after) = MapIds(before) \cup {call'.result[1].id}
                   /\ \E i \in DOMAIN after : after[i] = call'.result[1]
              ELSE IF call'.op = DeleteOp[k] /\ call'.result = TRUE
              THEN /\ Len(after) = Len(before) - 1
                   /\ MapIds(after) = MapIds(before) \ {call'.args.id}
              ELSE /\ Len(after) = Len(before)
                   /\ MapIds(after) = MapIds(before)]_vars

\* C21 happens: a delete that answered true follows a create of the same
\* kind, and the list is as long as after construction
DeletedAfterCreate ==
    /\ call.op = "deleteOrganization"
    /\ call.result = TRUE
    /\ created.organization = 1
    /\ Len(values(organizations)) = Len(DemoOrganizations)

----------------------------------------------------------------------------
(* Filtered request queries *)

\* a JavaScript array, as a value that is not undefined even when empty
ArrayOf(s) == [items |-> s]

getRequestsByOrganization(organizationId) ==
    ArrayOf(SelectSeq(values(requests), LAMBDA r : r.organizationId = organizationId))

getRequestsByPhysician(physicianId) ==
    ArrayOf(SelectSeq(values(requests), LAMBDA r : r.physicianId = physicianId))

\* getRequestsByStatus reading the status of the last history entry
getRequestsByLastStatus(status) ==
    ArrayOf(SelectSeq(values(requests),
                      LAMBDA r : History(r)[Len(History(r))].status = status))

\* r.status === status
getRequestsByStatus(status) ==
    ArrayOf(SelectSeq(values(requests), LAMBDA r : Field(r, "status") = Some(status)))

\* the statuses, organizations and physicians asked for
QueriedStatuses == statuses \cup {""}
QueriedIds == {1, 2, 99}

\* arr is an array holding, once each, the requests at the positions idx of reqs
HoldsExactly(arr, reqs, idx) ==
    /\ arr # undefined
    /\ DOMAIN arr.items = 1..Cardinality(idx)
    /\ {arr.items[i] : i \in DOMAIN arr.items} = {reqs[i] : i \in idx}

\* C22: the filtered request queries are equality filters over the current
\* field values.  After every call, getRequestsByStatus(s) is an array of
\* exactly the stored requests whose status field is s (empty, and not
\* undefined, when there is none), and likewise getRequestsByOrganization
\* and getRequestsByPhysician; so after a successful updateRequestStatus
\* the request is returned for the new status and for no other status.
FiltersAreExact ==
    /\ [](/\ \A s \in QueriedStatuses :
                HoldsExactly(getRequestsByStatus(s), requests,
                             {i \in DOMAIN requests :
                                 /\ "status" \in DOMAIN requests[i]
                                 /\ requests[i].status = s})
          /\ \A id \in QueriedIds :
                /\ HoldsExactly(getRequestsByOrganization(id), requests,
                                {i \in DOMAIN requests : requests[i].organizationId = id})
                /\ HoldsExactly(getRequestsByPhysician(id), requests,
                                {i \in DOMAIN requests : requests[i].physicianId = id}))
    /\ [][call'.op = "updateRequestStatus" /\ call'.result # undefined =>
             \A s \in QueriedStatuses :
                (\E i \in DOMAIN getRequestsByStatus(s)'.items :
                    getRequestsByStatus(s)'.items[i].id = call'.args.id)
                <=> s = call'.args.status]_vars

\* C22 happens: request 3, completed after construction, was set to
\* accepted and is now the second of the accepted requests and none of the
\* completed ones, while no request has the empty status
MovedToAccepted ==
    /\ call.op = "updateRequestStatus"
    /\ call.result # undefined
    /\ call.args.id = 3 /\ call.args.status = "accepted"
    /\ \E i \in DOMAIN getRequestsByStatus("accepted").items :
          getRequestsByStatus("accepted").items[i].id = 3
    /\ \A i \in DOMAIN getRequestsByStatus("completed").items :
          getRequestsByStatus("completed").items[i].id # 3
    /\ getRequestsByStatus("") = ArrayOf(<<>>)

----------------------------------------------------------------------------
(* Status changes of a historical request *)

\* the historical request of yesterday
HistoricalIds == {Len(ManualRequests) + 1}

HistoricalNext ==
    \/ \E id \in HistoricalIds, request \in RequestPatches :
          \E entryAt \in Now(clock) : \E updatedAt \in Now(entryAt) :
             updateRequest(id, request, entryAt, updatedAt)
    \/ \E id \in HistoricalIds, c \in StatusCalls :
          \E entryAt \in Now(clock) : \E updatedAt \in Now(entryAt) :
             updateRequestStatus(id, c[1], c[2], c[3], entryAt, updatedAt)

SpecHistorical == Init /\ [][HistoricalNext]_vars

\* C23: in every request's history, demo requests included, the timestamps
\* never decrease from one entry to the next, whatever updateRequest and
\* updateRequestStatus calls were made under a clock that never runs
\* backwards.
HistoryTimestampsAscend ==
    \A i \in DOMAIN requests :
       \A j \in 1..(Len(History(requests[i])) - 1) :
          parseISO(History(requests[i])[j].timestamp)
             <= parseISO(History(requests[i])[j + 1].timestamp)

----------------------------------------------------------------------------
(* Status field and history *)

\* C24: after any createRequest, updateRequest or updateRequestStatus,
\* with the status omitted, empty or any string, the status field of every
\* stored request equals the status of the last entry of its history.
StatusIsLastHistoryStatus ==
    \A i \in DOMAIN requests :
       Field(requests[i], "status") = Some(Last(History(requests[i])).status)

----------------------------------------------------------------------------
(* The two ways of changing a status *)

\* the statuses of a history, in order
StatusesOf(h) == [j \in DOMAIN h |-> h[j].status]

\* C25: updateRequest(id, {status: s}) and updateRequestStatus(id, s)
\* without note and user agree.  Whenever one of them is applied to a
\* stored request with a non-empty s that differs from its status, the
\* stored request's status, the length of its history and the statuses of
\* its history are the ones the other would have produced from the same
\* state.
StatusPathsAgree ==
    [][\A id \in RequestIds, s \in statuses :
          LET existingRequest == MapGet(requests, id)[1]
              stored == MapGet(requests', id)[1]
              differs == MapHas(requests, id)
                            /\ Field(existingRequest, "status") # Some(s)
              byStatus == AppendedHistory(existingRequest,
                                          StatusEntry(s, undefined, undefined, clock'))
              byPatch == Append(History(existingRequest),
                                PatchEntry([status |-> s], clock'))
          IN  /\ /\ call'.op = "updateRequest"
                 /\ call'.args = [id |-> id, request |-> [status |-> s]]
                 /\ differs
                 => /\ Field(stored, "status")
                          = Field(UpdatedRequest(existingRequest, s, clock', 0), "status")
                    /\ Len(HistoryAfter(id)) = Len(byStatus)
                    /\ StatusesOf(HistoryAfter(id)) = StatusesOf(byStatus)
              /\ /\ call'.op = "updateRequestStatus"
                 /\ call'.args = [id |-> id, status |-> s, note |-> undefined,
                                  userId |-> undefined]
                 /\ differs
                 => /\ Field(stored, "status")
                          = Field(MergedRequest(existingRequest, [status |-> s], clock'),
                                  "status")
                    /\ Len(HistoryAfter(id)) = Len(byPatch)
                    /\ StatusesOf(HistoryAfter(id)) = StatusesOf(byPatch)]_vars

\* C25 happens: a request created without a status was completed through
\* updateRequest, and its history reads pending, completed
CompletedByPatch ==
    /\ call.op = "updateRequest"
    /\ call.args.request = [status |-> "completed"]
    /\ call.result # undefined
    /\ created.request = 1
    /\ call.args.id = Len(ManualRequests) + HistoryDays + 1
    /\ StatusesOf(History(call.result[1])) = <<"pending", "completed">>

----------------------------------------------------------------------------
(* Returned requests *)

\* the operations that return a request
RequestReturning == {"createRequest", "updateRequest", "updateRequestStatus"}

\* C26: a returned request is a snapshot.  When updateRequest or
\* updateRequestStatus is applied to the id of the request the call before
\* returned, the statusHistory array that returned value refers to is the
\* same afterwards, entry for entry (the other fields of the returned
\* value are never written to).
ReturnedRequestsAreSnapshots ==
    [][LET returned == call.result[1]
       IN  /\ call.op \in RequestReturning
           /\ call.result # undefined
           /\ call'.op \in {"updateRequest", "updateRequestStatus"}
           /\ call'.args.id = returned.id
           /\ returned.statusHistory \in DOMAIN arrays'
           => arrays'[returned.statusHistory] = History(returned)]_vars

----------------------------------------------------------------------------
(* Usernames *)

\* the positions of the stored users named username
Holders(username) == {i \in DOMAIN users : users[i].username = username}

\* C27: createUser checks no uniqueness and getUserByUsername returns the
\* first holder.  Every createUser stores its user under an id no stored
\* user has, whether or not the username is already taken; and after every
\* call, getUserByUsername(u) is undefined when no stored user is named u
\* and otherwise the stored user named u with the smallest id.
FirstHolderIsReturned ==
    [][/\ call'.op = "createUser" =>
             /\ call'.result[1].username = call'.args.user.username
             /\ call'.result[1].id \notin MapIds(users)
             /\ Len(users') = Len(users) + 1
             /\ MapGet(users', call'.result[1].id) = call'.result
       /\ \A u \in Usernames :
             IF Holders(u)' = {}
             THEN getUserByUsername(u)' = undefined
             ELSE \E i \in Holders(u)' :
                     /\ getUserByUsername(u)' = Some(users'[i])
                     /\ \A j \in Holders(u)' : users'[i].id <= users'[j].id]_vars

\* C27 happens: a second user named admin was created, two users of
\* distinct ids hold the name, and the lookup returns the one of id 1
TwoAdmins ==
    /\ call.op = "createUser"
    /\ call.result[1].username = "admin"
    /\ call.result[1].id = Len(DemoUsers) + 1
    /\ Cardinality({users[i].id : i \in Holders("admin")}) = 2
    /\ getUserByUsername("admin")[1].id = 1

\* C28: verifyUserCredentials accepts every stored pair.  Whenever some
\* stored user has the username and the password given, the call returns a
\* user with that username and that password.
StoredCredentialsAreAccepted ==
    [][/\ call'.op = "verifyUserCredentials"
       /\ \E i \in DOMAIN users : /\ users[i].username = call'.args.username
                                  /\ users[i].password = call'.args.password
       => /\ call'.result # undefined
          /\ call'.result[1].username = call'.args.username
          /\ call'.result[1].password = call'.args.password]_vars

----------------------------------------------------------------------------
(* Order of the results *)

\* the ids of a result, in order
IdsOf(seq) == [i \in DOMAIN seq |-> seq[i].id]
\* each id is smaller than the next
Ascending(seq) == \A i \in 1..(Len(seq) - 1) : seq[i].id < seq[i + 1].id

\* the filters over one collection by an id
FiltersByIdAscend(id) ==
    /\ Ascending(getRequestsByOrganization(id).items)
    /\ Ascending(getRequestsByPhysician(id).items)
    /\ Ascending(SelectSeq(values(schedules), LAMBDA e : e.organizationId = id))
    /\ Ascending(SelectSeq(values(schedules), LAMBDA e : e.physicianId = id))
    /\ Ascending(SelectSeq(values(schedules),
                           LAMBDA e : activeFilter(e, id, undefined, undefined)))
    /\ Ascending(SelectSeq(values(users), LAMBDA e : e.organizationId = Some(id)))

\* the filters over one collection, for each status and id asked for
FiltersAscend ==
    /\ \A s \in QueriedStatuses : Ascending(getRequestsByStatus(s).items)
    /\ \A id \in QueriedIds : FiltersByIdAscend(id)

\* C29 as stated: every list and filter operation returns its entities in
\* ascending id order, the physicians of an organization and the
\* organizations of a physician included.
EveryQueryAscends ==
    /\ \A k \in ListKinds : Ascending(values(Collection[k]))
    /\ FiltersAscend
    /\ \A id \in QueriedIds : /\ Ascending(physiciansByOrganization(id))
                              /\ Ascending(organizationsByPhysician(id))

\* C29: the list operations and the filters over one collection return
\* their entities in ascending id order after every create, update and
\* delete: an update leaves the order of the ids of its kind as it was,
\* and a created entity is the last of its kind.  (The physicians of an
\* organization and the organizations of a physician come in the order of
\* the assignment rows instead.)
ListingsAscend ==
    /\ [](/\ \A k \in ListKinds : Ascending(values(Collection[k]))
          /\ FiltersAscend)
    /\ [][\A k \in ListKinds :
             /\ call'.op = CreateOp[k] =>
                   Last(values(Collection'[k])).id = call'.result[1].id
             /\ call'.op \in DOMAIN UpdatedKind /\ UpdatedKind[call'.op] = k =>
                   IdsOf(values(Collection'[k])) = IdsOf(values(Collection[k]))]_vars

\* C29 happens: after an organization was created, the first organization
\* was updated and the listing still reads 1, 2, 3
UpdatedInPlace ==
    /\ call.op = "updateOrganization"
    /\ call.result # undefined
    /\ call.args.id = 1
    /\ created.organization = 1
    /\ IdsOf(values(organizations)) = <<1, 2, 3>>

----------------------------------------------------------------------------
(* The HTTP routes that answer with users (registerRoutes) *)

\* const { password, ...userWithoutPassword } = user, without taking the
\* password out
userWithPassword(user) == user

\* const { password, ...userWithoutPassword } = user
userWithoutPassword(user) == [k \in (DOMAIN user) \ {"password"} |-> user[k]]

\* res.status(status).json(body)
json(status, body) == [status |-> status, body |-> body]

\* the columns of users an InsertUser may have; all but the last two are
\* required
InsertUserKeys ==
    {"username", "password", "firstName", "lastName", "email", "role", "organizationId",
     "physicianId"}

\* insertUserSchema.parse(req.body): the known keys of the body, or
\* undefined for a ZodError
parseInsertUser(body) ==
    IF (InsertUserKeys \ {"organizationId", "physicianId"}) \subseteq DOMAIN body
    THEN Some([k \in (DOMAIN body) \cap InsertUserKeys |-> body[k]])
    ELSE undefined

\* insertUserSchema.partial().parse(req.body)
parsePartialUser(body) == [k \in (DOMAIN body) \cap InsertUserKeys |-> body[k]]

\* userLoginSchema.parse(req.body), or undefined for a ZodError
parseUserLogin(body) ==
    IF /\ {"username", "password"} \subseteq DOMAIN body
       /\ body.username # ""
       /\ body.password # ""
    THEN Some([username |-> body.username, password |-> body.password])
    ELSE undefined

\* parseInt(req.params.id), undefined standing for NaN
parseInt(param) ==
    CASE param = "1" -> Some(1)
      [] param = "3" -> Some(3)
      [] OTHER -> undefined

\* the route has answered; it touches users only
Responded(route, args, response) ==
    /\ Called(route, args, response)
    /\ UNCHANGED <<organizations, physicians, organizationPhysicians, schedules, requests,
                   orgCurrentId, physicianCurrentId, orgPhysicianCurrentId,
                   scheduleCurrentId, requestCurrentId, arrays>>

postLogin(body) ==
    LET loginData == parseUserLogin(body)
        found == getUserByUsername(loginData[1].username)
        response ==
            IF loginData = undefined THEN json(400, [message |-> "Validation error"])
            ELSE IF rejected(found, loginData[1].password)
                 THEN json(401, [message |-> "Invalid username or password"])
                 ELSE json(200, userWithoutPassword(found[1]))
    IN  /\ Responded("POST /api/login", [body |-> body], response)
        /\ UNCHANGED <<users, userCurrentId, clock>>

\* storage.createUser(userData), answered with 201
createdResponse(route, body, userData, now) ==
    LET newUser == Spread(userData, [id |-> userCurrentId, createdAt |-> now])
    IN  /\ Responded(route, [body |-> body], json(201, userWithoutPassword(newUser)))
        /\ userCurrentId' = userCurrentId + 1
        /\ users' = MapSet(users, userCurrentId, newUser)
        /\ clock' = now

postRegister(body, now) ==
    LET userData == parseInsertUser(body)
    IN  IF userData = undefined
        THEN /\ now = clock
             /\ Responded("POST /api/register", [body |-> body],
                          json(400, [message |-> "Validation error"]))
             /\ UNCHANGED <<users, userCurrentId, clock>>
        ELSE IF getUserByUsername(userData[1].username) # undefined
        THEN /\ now = clock
             /\ Responded("POST /api/register", [body |-> body],
                          json(400, [message |-> "Username already exists"]))
             /\ UNCHANGED <<users, userCurrentId, clock>>
        ELSE createdResponse("POST /api/register", body, userData[1], now)

getCurrentUser ==
    /\ Responded("GET /api/user", <<>>,
                 IF getUser(1) # undefined
                 THEN json(200, userWithoutPassword(getUser(1)[1]))
                 ELSE json(401, [message |-> "Not authenticated"]))
    /\ UNCHANGED <<users, userCurrentId, clock>>

getUsersRoute ==
    /\ Responded("GET /api/users", <<>>,
                 json(200, [i \in DOMAIN users |-> userWithoutPassword(values(users)[i])]))
    /\ UNCHANGED <<users, userCurrentId, clock>>

getUserRoute(param) ==
    LET id == parseInt(param)
    IN  /\ Responded("GET /api/users/:id", [id |-> param],
                     IF id = undefined THEN json(400, [message |-> "Invalid user ID"])
                     ELSE IF getUser(id[1]) = undefined
                          THEN json(404, [message |-> "User not found"])
                          ELSE json(200, userWithoutPassword(getUser(id[1])[1])))
        /\ UNCHANGED <<users, userCurrentId, clock>>

getOrganizationUsers(param) ==
    LET organizationId == parseInt(param)
        found == SelectSeq(values(users),
                           LAMBDA u : u.organizationId = Some(organizationId[1]))
    IN  /\ Responded("GET /api/organizations/:id/users", [id |-> param],
                     IF organizationId = undefined
                     THEN json(400, [message |-> "Invalid organization ID"])
                     ELSE json(200, [i \in DOMAIN found |-> userWithoutPassword(found[i])]))
        /\ UNCHANGED <<users, userCurrentId, clock>>

postUser(body, now) ==
    LET userData == parseInsertUser(body)
    IN  IF userData = undefined
        THEN /\ now = clock
             /\ Responded("POST /api/users", [body |-> body],
                          json(400, [message |-> "Validation error"]))
             /\ UNCHANGED <<users, userCurrentId, clock>>
        ELSE createdResponse("POST /api/users", body, userData[1], now)

putUser(param, body) ==
    LET id == parseInt(param)
        userData == parsePartialUser(body)
        existingUser == getUser(id[1])
        found == id # undefined /\ existingUser # undefined
    IN  /\ Responded("PUT /api/users/:id", [id |-> param, body |-> body],
                     IF id = undefined THEN json(400, [message |-> "Invalid user ID"])
                     ELSE IF existingUser = undefined
                          THEN json(404, [message |-> "User not found"])
                          ELSE json(200, userWithoutPassword(
                                             updatedUser(existingUser[1], userData))))
        /\ users' = IF found
                    THEN MapSet(users, id[1], updatedUser(existingUser[1], userData))
                    ELSE users
        /\ UNCHANGED <<userCurrentId, clock>>

deleteUserRoute(param) ==
    LET id == parseInt(param)
    IN  /\ Responded("DELETE /api/users/:id", [id |-> param],
                     IF id = undefined THEN json(400, [message |-> "Invalid user ID"])
                     ELSE IF ~MapHas(users, id[1])
                          THEN json(404, [message |-> "User not found"])
                          ELSE json(200, [message |-> "User deleted successfully"]))
        /\ users' = IF id = undefined THEN users ELSE MapDelete(users, id[1])
        /\ UNCHANGED <<userCurrentId, clock>>

\* req.body of the login route: the admin's credentials, a wrong password,
\* no password; of the routes that create a user: the test's user with a
\* key the schema does not know, and a body without the required keys; of
\* the PUT route: a password, and a name with a key the schema does not know
Bodies ==
    [login |-> {[username |-> "admin", password |-> "password"],
                [username |-> "admin", password |-> "wrong"], [username |-> "admin"]},
     user |-> {Spread(TestUser, [note |-> "x"]), [username |-> "user1"]},
     put |-> {[password |-> "new"], [lastName |-> "new", id |-> 9]}]
\* req.params.id
Params == {"1", "3", "abc"}

HttpNext ==
    \/ \E body \in Bodies.login : postLogin(body)
    \/ \E body \in Bodies.user, now \in Now(clock) : postRegister(body, now)
    \/ getCurrentUser
    \/ getUsersRoute
    \/ \E param \in Params : getUserRoute(param)
    \/ \E param \in Params : getOrganizationUsers(param)
    \/ \E body \in Bodies.user, now \in Now(clock) : postUser(body, now)
    \/ \E param \in Params, body \in Bodies.put : putUser(param, body)
    \/ \E param \in Params : deleteUserRoute(param)

\* the store behind the routes that answer with users
SpecHttp == Init /\ [][HttpNext]_vars

\* the routes that answer with one user, and with a list of users
UserRoutes ==
    {"POST /api/login", "POST /api/register", "GET /api/user", "GET /api/users/:id",
     "POST /api/users", "PUT /api/users/:id"}
UserListRoutes == {"GET /api/users", "GET /api/organizations/:id/users"}

\* a response object is the stored user stripped of exactly its password
IsStoredWithoutPassword(object) ==
    \E i \in DOMAIN users :
       /\ DOMAIN object = (DOMAIN users[i]) \ {"password"}
       /\ \A k \in DOMAIN object : object[k] = users[i][k]

\* C30: no response that carries user data contains a password.  Every
\* successful answer of login, register, GET /api/user, GET, POST and PUT
\* on /api/users is a stored user without exactly its password field, and
\* every answer of GET /api/users and GET /api/organizations/:id/users is
\* a list of such objects; no other answer of these routes has a password
\* field either.
NoPasswordInResponses ==
    /\ call.op \in UserRoutes =>
          /\ "password" \notin DOMAIN call.result.body
          /\ call.result.status \in {200, 201} =>
                IsStoredWithoutPassword(call.result.body)
    /\ call.op \in UserListRoutes /\ call.result.status = 200 =>
          \A i \in DOMAIN call.result.body :
             /\ "password" \notin DOMAIN call.result.body[i]
             /\ IsStoredWithoutPassword(call.result.body[i])

\* C30 happens: after a user with password pass was created, the list of
\* users was answered with three users, the third being that user
CreatedUserListed ==
    /\ call.op = "GET /api/users"
    /\ call.result.status = 200
    /\ Len(call.result.body) = 3
    /\ call.result.body[3].username = "user1"
    /\ users[3].password = "pass"

====
